---------------------------- MODULE Spec2Model ----------------------------
(***************************************************************************)
(* A model of the TIDE analysis pipeline (src/tide_analyzer.py): a session *)
(* is collected response by response (src/tide_collector.py, run_session)  *)
(* and then analysed by TIDEAnalyzer.analyze_session, which calls the      *)
(* RSAEngine.                                                              *)
(*                                                                         *)
(* Numbers.  Feature values are integers.  The code computes in IEEE       *)
(* doubles; the model computes in exact arithmetic and keeps every result  *)
(* in a closed form:                                                       *)
(*   [k |-> "nan"]                  NaN                                    *)
(*   [k |-> "rat", num, den]        num / den                              *)
(*   [k |-> "sim", num, den2]       num / sqrt(den2)     (a cosine)        *)
(*   [k |-> "dist", num, den2]      1 - num / sqrt(den2) (a distance)      *)
(*   [k |-> "mean", of |-> seq]     the arithmetic mean of seq             *)
(*   [k |-> "std", of |-> seq]      the standard deviation of seq          *)
(* A raised exception is the record [error |-> <exception name>].          *)
(***************************************************************************)
EXTENDS Integers, Sequences, FiniteSets, TLC

VARIABLES
    keys,        \* insertion order of the keys of session_data['responses']
    responses,   \* session_data['responses']: task type -> list of responses
    results,     \* what the last analyze_session call returned (or raised)
    sim_call,    \* the last calculate_feature_similarity call
    cmp_call,    \* the last compare_rdms call
    trend_call,  \* the last calculate_trend call
    balance_call, \* the last calculate_internal_external_balance call
    again,       \* what a second analyze_session call on the session returned
    all_results, \* the batch: one record per analysed session
    cross,       \* what analyze_all_sessions returned for the batch
    stats,       \* what calculate_comprehensive_stats returned for the batch
    week         \* run_automated_collection_week: where its loop is, what it
                 \* printed, the checkpoints it wrote and the waits it made

\* the variables of the single calls and those of the batch
callVars == <<sim_call, cmp_call, trend_call, balance_call>>
batchVars == <<all_results, cross, stats, week>>

vars == <<keys, responses, results, sim_call, cmp_call, trend_call, balance_call,
          again, all_results, cross, stats, week>>

-----------------------------------------------------------------------------
(* Bounds of the model *)

MaxResponses == 3      \* responses in a session of Spec
MaxPatterns == 4       \* responses in a session of SpecPat
MaxValue == 1          \* feature values are 0..MaxValue
MaxDim == 3            \* matrices handed to compare_rdms are at most MaxDim x MaxDim
MaxTwice == 2          \* responses in a session of SpecTwice
MaxSessions == 3       \* sessions in a batch of SpecBatch
MaxSamples == 5        \* sessions in a batch of SpecStats
MaxLoaded == 3         \* sessions in a batch of SpecBal
MaxTrendLen == 5       \* the trajectories of SpecTrend: every list up to this length
MaxTrendValue == 4     \*   over the values 0..MaxTrendValue,
MaxRampLen == 33       \*   and the ramps up to this length
SessionsPerModel == 2  \* config['sessions_per_model'] in the runs of SpecWeek
MaxExtra == 2          \* responses in a session of SpecExtra
MaxModeSessions == 2   \* sessions in a batch of SpecMode

-----------------------------------------------------------------------------
(* The dissertation model: load_dissertation_model *)

internal_features == <<"social", "emotion", "polarity", "morality", "thought", "self_motion">>
external_features == <<"space", "time", "number">>
concrete_features == <<"visual", "color", "auditory", "smell_taste", "tactile">>

\* the fixed iteration order of the task types
TaskOrder == <<"concrete", "internal", "external">>

TaskTypes == {"concrete", "internal", "external"}

Range(s) == {s[i] : i \in DOMAIN s}

CanonicalFeatures == internal_features \o external_features \o concrete_features

\* sorted(): the feature names of the model in string order, the 14
\* canonical names and one that is not canonical
SortedNames == <<"auditory", "color", "emotion", "morality", "number", "polarity",
                 "self_motion", "smell_taste", "social", "space", "tactile",
                 "thought", "time", "valence", "visual">>

\* sorted(d.keys())
SortedKeys(d) == SelectSeq(SortedNames, LAMBDA f : f \in DOMAIN d)

\* d.get(f, 0)
Get(d, f) == IF f \in DOMAIN d THEN d[f] ELSE 0

-----------------------------------------------------------------------------
(* Numbers *)

NaN == [k |-> "nan"]
Rat(n, d) == [k |-> "rat", num |-> n, den |-> d]
Sim(n, d2) == [k |-> "sim", num |-> n, den2 |-> d2]
Dist(n, d2) == [k |-> "dist", num |-> n, den2 |-> d2]

IsNaN(x) == x.k = "nan"

\* the float 0.0 as a similarity or correlation, 0.0 and 1.0 as distances
Zero == Sim(0, 1)
DistZero == Dist(1, 1)
DistOne == Dist(0, 1)

RECURSIVE SumTo(_, _)
SumTo(s, n) == IF n = 0 THEN 0 ELSE s[n] + SumTo(s, n - 1)

\* sum(s)
SumSeq(s) == SumTo(s, Len(s))

\* a.num / sqrt(a.den2) < b.num / sqrt(b.den2)
SurdLess(a, b) ==
    LET x == a.num * a.num * b.den2
        y == b.num * b.num * a.den2
    IN  IF a.num < 0 /\ b.num >= 0 THEN TRUE
        ELSE IF a.num >= 0 /\ b.num < 0 THEN FALSE
        ELSE IF a.num >= 0 THEN x < y
        ELSE x > y

SurdEq(a, b) == ~SurdLess(a, b) /\ ~SurdLess(b, a)

\* float equality and order of two matrix entries (NaN equals nothing)
DistEq(a, b) == ~IsNaN(a) /\ ~IsNaN(b) /\ SurdEq(a, b)
DistLess(a, b) == ~IsNaN(a) /\ ~IsNaN(b) /\ SurdLess(b, a)

\* np.mean, np.std of a list of numbers: NaN as soon as one of them is
AnyNaN(s) == \E i \in DOMAIN s : IsNaN(s[i])
Mean(s) == IF AnyNaN(s) THEN NaN ELSE [k |-> "mean", of |-> s]
Std(s) == IF AnyNaN(s) THEN NaN ELSE [k |-> "std", of |-> s]

\* Natural numbers of any size, for the sums of a correlation: the digits in
\* base Base, the least significant first, no leading zero
Base == 10000

Abs(n) == IF n < 0 THEN 0 - n ELSE n

RECURSIVE Big(_)
Big(n) == IF n = 0 THEN <<>> ELSE <<n % Base>> \o Big(n \div Base)

RECURSIVE BigAddCarry(_, _, _)
BigAddCarry(a, b, c) ==
    IF a = <<>> /\ b = <<>> THEN Big(c)
    ELSE LET x == IF a = <<>> THEN 0 ELSE Head(a)
             y == IF b = <<>> THEN 0 ELSE Head(b)
         IN  <<(x + y + c) % Base>>
             \o BigAddCarry(IF a = <<>> THEN a ELSE Tail(a),
                            IF b = <<>> THEN b ELSE Tail(b), (x + y + c) \div Base)

BigAdd(a, b) == BigAddCarry(a, b, 0)

RECURSIVE BigTrim(_)
BigTrim(a) == IF a = <<>> THEN a
              ELSE IF a[Len(a)] = 0 THEN BigTrim(SubSeq(a, 1, Len(a) - 1)) ELSE a

RECURSIVE BigSubBorrow(_, _, _)
BigSubBorrow(a, b, c) ==
    IF a = <<>> THEN <<>>
    ELSE LET d == Head(a) - (IF b = <<>> THEN 0 ELSE Head(b)) - c
         IN  <<IF d < 0 THEN d + Base ELSE d>>
             \o BigSubBorrow(Tail(a), IF b = <<>> THEN b ELSE Tail(b),
                             IF d < 0 THEN 1 ELSE 0)

\* a - b, for a >= b
BigSub(a, b) == BigTrim(BigSubBorrow(a, b, 0))

\* a * d + c for one digit d > 0
RECURSIVE BigScale(_, _, _)
BigScale(a, d, c) ==
    IF a = <<>> THEN Big(c)
    ELSE <<(Head(a) * d + c) % Base>> \o BigScale(Tail(a), d, (Head(a) * d + c) \div Base)

RECURSIVE BigMul(_, _)
BigMul(a, b) ==
    IF a = <<>> \/ b = <<>> THEN <<>>
    ELSE LET rest == BigMul(a, Tail(b))
         IN  BigAdd(IF Head(b) = 0 THEN <<>> ELSE BigScale(a, Head(b), 0),
                    IF rest = <<>> THEN rest ELSE <<0>> \o rest)

RECURSIVE BigLessFrom(_, _, _)
BigLessFrom(a, b, i) ==
    IF i = 0 THEN FALSE
    ELSE IF a[i] # b[i] THEN a[i] < b[i] ELSE BigLessFrom(a, b, i - 1)

BigLess(a, b) == IF Len(a) # Len(b) THEN Len(a) < Len(b) ELSE BigLessFrom(a, b, Len(a))

RECURSIVE BigSumTo(_, _)
BigSumTo(s, n) == IF n = 0 THEN <<>> ELSE BigAdd(s[n], BigSumTo(s, n - 1))

BigSum(s) == BigSumTo(s, Len(s))

-----------------------------------------------------------------------------
(* Inputs: the responses a session is built from *)

KeyPool == {"social", "visual"}

\* every feature dict over the pool's keys, the empty dict included
FeatureDicts == UNION {[K -> 0..MaxValue] : K \in SUBSET KeyPool}

\* str.lower() on the words of the model's texts
Lower(w) == IF w = "Rain" THEN "rain" ELSE w

NoKey == "<absent>"

\* a response record as the collector builds it; the text is the list of
\* its whitespace-separated words, and the key 'task_type' is absent
Response(d, text, p) ==
    [response |-> text, features |-> d, pattern |-> p, task_type |-> NoKey]

\* the responses of the sessions: an all-zero feature dict, two full ones,
\* and two partial ones with different keys
ResponsePool ==
    { Response([social |-> 0, visual |-> 0], <<"Rain">>, "AAFS"),
      Response([social |-> 1, visual |-> 1], <<"rain", "falls">>, "CCDS"),
      Response([social |-> 1, visual |-> 0], <<"Rain">>, "AAFS"),
      Response([social |-> 1], <<"rain", "falls">>, "CCDS"),
      Response([visual |-> 1], <<"Rain">>, "AAFS") }

\* responses that differ in their pattern signature only
PatternPool == {Response([f \in KeyPool |-> MaxValue], <<"rain">>, p) :
                    p \in {"AAFS", "CCFS", "CCDS"}}

\* responses with and without a feature name that is not canonical
ExtraPool ==
    { Response([social |-> 1, valence |-> 1], <<"rain">>, "AAFS"),
      Response([social |-> 1, visual |-> 1], <<"rain", "falls">>, "CCDS"),
      Response([valence |-> 1], <<"Rain">>, "AAFS"),
      Response([social |-> 1], <<"Rain">>, "AAFS") }

\* the arguments of calculate_feature_similarity: every dict over the
\* pool's keys, negative scores (polarity) included
SimDicts == UNION {[K -> (-1)..MaxValue] : K \in SUBSET KeyPool}

-----------------------------------------------------------------------------
(* TIDEAnalyzer.calculate_dimensional_shifts *)

\* a flattening that leaves the responses as they are, untagged
RECURSIVE FlattenKeep(_, _)
FlattenKeep(resp, order) ==
    IF order = <<>> THEN <<>>
    ELSE (IF Head(order) \in DOMAIN resp THEN resp[Head(order)] ELSE <<>>)
         \o FlattenKeep(resp, Tail(order))

RECURSIVE Flatten(_, _)
Flatten(resp, order) ==
    IF order = <<>> THEN <<>>
    ELSE LET t == Head(order)
         IN  (IF t \in DOMAIN resp
              THEN [i \in DOMAIN resp[t] |-> [resp[t][i] EXCEPT !.task_type = t]]
              ELSE <<>>) \o Flatten(resp, Tail(order))

\* a flattening in the insertion order of the session's task types
AllResponsesInserted(resp) == Flatten(resp, keys)

\* all_responses: the responses in the order concrete, internal, external,
\* each tagged with its task type
AllResponses(resp) == Flatten(resp, TaskOrder)

FactorFeatures(factor) ==
    IF factor = "internal" THEN internal_features
    ELSE IF factor = "external" THEN external_features
    ELSE concrete_features

\* the sum of the factor's features, a missing one counting 0
FactorSum(features, factor) ==
    LET fs == FactorFeatures(factor)
    IN  SumSeq([i \in DOMAIN fs |-> Get(features, fs[i])])

\* the shift with each mean taken over the features the dict has
calculate_factor_shift_present(before_features, after_features, factor) ==
    LET fs == FactorFeatures(factor)
        has(d) == Cardinality({i \in DOMAIN fs : fs[i] \in DOMAIN d})
        nb == IF has(before_features) = 0 THEN 1 ELSE has(before_features)
        na == IF has(after_features) = 0 THEN 1 ELSE has(after_features)
    IN  Rat(FactorSum(after_features, factor) * nb - FactorSum(before_features, factor) * na,
            na * nb)

\* after_score - before_score, both means over the factor's feature list
calculate_factor_shift(before_features, after_features, factor) ==
    Rat(FactorSum(after_features, factor) - FactorSum(before_features, factor),
        Len(FactorFeatures(factor)))

Arrow(a, b) == <<a, "->", b>>

ShiftData(before, after) ==
    [transition |-> Arrow(before.task_type, after.task_type),
     internal_delta |-> calculate_factor_shift(before.features, after.features, "internal"),
     external_delta |-> calculate_factor_shift(before.features, after.features, "external"),
     concrete_delta |-> calculate_factor_shift(before.features, after.features, "concrete"),
     pattern_change |-> Arrow(before.pattern, after.pattern)]

\* calculate_dimensional_shifts over the responses in the insertion order of
\* the task types
calculate_dimensional_shifts_inserted(resp) ==
    LET all == AllResponsesInserted(resp)
    IN  [i \in 1..(IF Len(all) = 0 THEN 0 ELSE Len(all) - 1) |->
            ShiftData(all[i], all[i + 1])]

calculate_dimensional_shifts(resp) ==
    LET all == AllResponses(resp)
    IN  [i \in 1..(IF Len(all) = 0 THEN 0 ELSE Len(all) - 1) |->
            ShiftData(all[i], all[i + 1])]

\* the side effect of the flattening loop: resp['task_type'] = task_type
TagTaskTypes(resp) ==
    [t \in DOMAIN resp |->
        IF t \in TaskTypes
        THEN [i \in DOMAIN resp[t] |-> [resp[t][i] EXCEPT !.task_type = t]]
        ELSE resp[t]]

-----------------------------------------------------------------------------
(* RSAEngine *)

\* session_data['responses'].values(), flattened: the responses in the
\* insertion order of the task types
RECURSIVE ValuesFlat(_, _)
ValuesFlat(order, resp) ==
    IF order = <<>> THEN <<>> ELSE resp[Head(order)] \o ValuesFlat(Tail(order), resp)

IsError(x) == "error" \in DOMAIN x

\* np.array([]): the empty one-dimensional array
EmptyRdm == [shape |-> <<0>>, at |-> <<>>]

\* an n x n matrix of zeros (np.zeros((n, n))) with rdm[i, j] = rdm[j, i] =
\* upper[<<i, j>>] for i < j.  The comparison with the empty matrix makes TLC
\* compute the entries once, when the matrix is built
Square(n, upper) ==
    LET at == [p \in (1..n) \X (1..n) |->
                  IF p[1] = p[2] THEN DistZero
                  ELSE IF p[1] < p[2] THEN upper[p] ELSE upper[<<p[2], p[1]>>]]
    IN  IF at = <<>> THEN [shape |-> <<n, n>>, at |-> <<>>]
        ELSE [shape |-> <<n, n>>, at |-> at]

\* the index pairs i < j of the double loop
Pairs(n) == {p \in (1..n) \X (1..n) : p[1] < p[2]}

Dot(u, v) == SumSeq([i \in DOMAIN u |-> u[i] * v[i]])

\* scipy.spatial.distance.cosine: 1 - u.v / sqrt(u.u * v.v); vectors of
\* different lengths raise ValueError, a zero norm gives 0/0 = NaN
cosine(u, v) ==
    IF Len(u) # Len(v) THEN [error |-> "ValueError"]
    ELSE LET uv == Dot(u, v)
             nn == Dot(u, u) * Dot(v, v)
         IN  IF nn = 0 THEN NaN ELSE Dist(uv, nn)

\* [resp['features'].get(f, 0) for f in sorted(resp['features'].keys())]
FeatureVec(features) ==
    LET ks == SortedKeys(features) IN [i \in DOMAIN ks |-> Get(features, ks[i])]

create_feature_rdm(order, resp) ==
    LET all == ValuesFlat(order, resp)
        all_features == [i \in DOMAIN all |-> FeatureVec(all[i].features)]
        n == Len(all_features)
    IN  IF n < 2 THEN EmptyRdm
        ELSE IF \E i, j \in 1..n : Len(all_features[i]) # Len(all_features[j])
        THEN [error |-> "ValueError"]
        ELSE Square(n, [p \in Pairs(n) |-> cosine(all_features[p[1]], all_features[p[2]])])

\* set(text.lower().split())
Words(text) == {Lower(text[i]) : i \in DOMAIN text}

SemanticDistance(t1, t2) ==
    LET words1 == Words(t1)
        words2 == Words(t2)
        u == Cardinality(words1 \cup words2)
    IN  IF Cardinality(words1) + Cardinality(words2) > 0
        THEN Dist(Cardinality(words1 \cap words2), u * u)
        ELSE DistOne

\* create_semantic_rdm over the responses in the order concrete, internal,
\* external
create_semantic_rdm_canonical(order, resp) ==
    LET all == ValuesFlat(SelectSeq(TaskOrder, LAMBDA t : t \in Range(order)), resp)
        n == Len(all)
    IN  IF n < 2 THEN EmptyRdm
        ELSE Square(n, [p \in Pairs(n) |->
                           SemanticDistance(all[p[1]].response, all[p[2]].response)])

create_semantic_rdm(order, resp) ==
    LET all == ValuesFlat(order, resp)
        n == Len(all)
    IN  IF n < 2 THEN EmptyRdm
        ELSE Square(n, [p \in Pairs(n) |->
                           SemanticDistance(all[p[1]].response, all[p[2]].response)])

\* create_pattern_rdm with the size test off by one (n < 1)
create_pattern_rdm_from_one(order, resp) ==
    LET all == ValuesFlat(order, resp)
        n == Len(all)
    IN  IF n < 1 THEN EmptyRdm
        ELSE Square(n, [p \in Pairs(n) |->
                           IF all[p[1]].pattern = all[p[2]].pattern
                           THEN DistZero ELSE DistOne])

\* create_pattern_rdm without the assignment rdm[j, i] = distance
create_pattern_rdm_upper(order, resp) ==
    LET all == ValuesFlat(order, resp)
        n == Len(all)
    IN  IF n < 2 THEN EmptyRdm
        ELSE [shape |-> <<n, n>>,
              at |-> [p \in (1..n) \X (1..n) |->
                         IF p[1] < p[2] /\ all[p[1]].pattern # all[p[2]].pattern
                         THEN DistOne ELSE DistZero]]

create_pattern_rdm(order, resp) ==
    LET all == ValuesFlat(order, resp)
        n == Len(all)
    IN  IF n < 2 THEN EmptyRdm
        ELSE Square(n, [p \in Pairs(n) |->
                           IF all[p[1]].pattern = all[p[2]].pattern
                           THEN DistZero ELSE DistOne])

\* rdm[mask] with mask = np.triu(np.ones_like(rdm), k=1): the entries above
\* the diagonal, row by row
RECURSIVE UpperPairs(_, _, _)
UpperPairs(n, i, j) ==
    IF i >= n THEN <<>>
    ELSE IF j > n THEN UpperPairs(n, i + 1, i + 2)
    ELSE <<<<i, j>>>> \o UpperPairs(n, i, j + 1)

UpperTriangle(rdm) ==
    LET ps == UpperPairs(rdm.shape[1], 1, 2) IN [i \in DOMAIN ps |-> rdm.at[ps[i]]]

\* len(set(values)): equal floats are one element, every NaN is its own
SetSize(values) ==
    LET idx == DOMAIN values
        firsts == {i \in idx : ~IsNaN(values[i]) /\
                      \A j \in idx : j < i => ~DistEq(values[j], values[i])}
        nans == {i \in idx : IsNaN(values[i])}
    IN  Cardinality(firsts) + Cardinality(nans)

\* twice the average rank of values[i] (scipy.stats.rankdata)
Rank2(values, i) ==
    2 * Cardinality({j \in DOMAIN values : DistLess(values[j], values[i])})
    + Cardinality({j \in DOMAIN values : DistEq(values[j], values[i])}) + 1

\* scipy.stats.spearmanr: the Pearson correlation of the ranks; NaN when an
\* input holds a NaN or is constant
spearmanr(values1, values2) ==
    LET n == Len(values1)
        r1 == [i \in 1..n |-> Rank2(values1, i)]
        r2 == [i \in 1..n |-> Rank2(values2, i)]
        sum1 == SumSeq(r1)
        sum2 == SumSeq(r2)
        d1 == [i \in 1..n |-> n * r1[i] - sum1]
        d2 == [i \in 1..n |-> n * r2[i] - sum2]
        sxy == SumSeq([i \in 1..n |-> d1[i] * d2[i]])
        sxx == SumSeq([i \in 1..n |-> d1[i] * d1[i]])
        syy == SumSeq([i \in 1..n |-> d2[i] * d2[i]])
    IN  IF AnyNaN(values1) \/ AnyNaN(values2) THEN NaN
        ELSE IF sxx * syy = 0 THEN NaN
        ELSE Sim(sxy, sxx * syy)

\* RSAEngine.compare_rdms.  A one-dimensional (empty) array has no upper
\* triangle: np.triu of it is a 0 x 0 mask, and indexing the array with a
\* two-dimensional mask raises IndexError, before the try block
compare_rdms(rdm1, rdm2) ==
    IF rdm1.shape # rdm2.shape THEN Zero
    ELSE IF Len(rdm1.shape) < 2 THEN [error |-> "IndexError"]
    ELSE LET values1 == UpperTriangle(rdm1)
             values2 == UpperTriangle(rdm2)
         IN  IF Len(values1) > 0
             THEN IF SetSize(values1) = 1 \/ SetSize(values2) = 1 THEN Zero
                  ELSE LET correlation == spearmanr(values1, values2)
                       IN  IF IsNaN(correlation) THEN Zero ELSE correlation
             ELSE Zero

\* len(rdm): the first dimension
RdmLen(rdm) == rdm.shape[1]

analyze_patterns(order, resp) ==
    LET features == create_feature_rdm(order, resp)
        semantic == create_semantic_rdm(order, resp)
        pattern == create_pattern_rdm(order, resp)
    IN  IF IsError(features) THEN features
        ELSE LET rdms == [features |-> features, semantic |-> semantic,
                          pattern |-> pattern]
             IN  IF RdmLen(features) > 1 /\ RdmLen(semantic) > 1
                 THEN LET c == compare_rdms(features, semantic)
                      IN  IF IsError(c) THEN c
                          ELSE [rdms |-> rdms,
                                comparisons |-> [feature_semantic |-> c]]
                 ELSE [rdms |-> rdms, comparisons |-> <<>>]

-----------------------------------------------------------------------------
(* TIDEAnalyzer._convert_rsa_to_serializable *)

\* the entries of a matrix, row by row
Entries(rdm) ==
    IF Len(rdm.shape) < 2 THEN <<>>
    ELSE LET n == rdm.shape[1]
         IN  [i \in 1..(n * n) |-> rdm.at[<<((i - 1) \div n) + 1, ((i - 1) % n) + 1>>]]

Summary(rdm) ==
    [shape |-> rdm.shape,
     mean |-> IF Len(Entries(rdm)) > 0 THEN Mean(Entries(rdm)) ELSE Rat(0, 1),
     std |-> IF Len(Entries(rdm)) > 0 THEN Std(Entries(rdm)) ELSE Rat(0, 1)]

convert_rsa_to_serializable(rsa_data) ==
    [rdms |-> [key \in DOMAIN rsa_data.rdms |-> Summary(rsa_data.rdms[key])],
     comparisons |-> [key \in DOMAIN rsa_data.comparisons |->
                        IF IsNaN(rsa_data.comparisons[key]) THEN Zero
                        ELSE rsa_data.comparisons[key]]]

-----------------------------------------------------------------------------
(* TIDEAnalyzer.track_feature_changes, calculate_trend *)

RECURSIVE MaxSeq(_)
MaxSeq(s) == IF Len(s) = 1 THEN s[1]
             ELSE LET m == MaxSeq(Tail(s)) IN IF s[1] > m THEN s[1] ELSE m

RECURSIVE MinSeq(_)
MinSeq(s) == IF Len(s) = 1 THEN s[1]
             ELSE LET m == MinSeq(Tail(s)) IN IF s[1] < m THEN s[1] ELSE m

\* float('nan') in a list of values, which are integers otherwise
NotANumber == -1000000

\* len(set(values)): equal values are one element, every NaN is its own
DistinctValues(values) ==
    Cardinality({values[i] : i \in DOMAIN values} \ {NotANumber})
    + Cardinality({i \in DOMAIN values : values[i] = NotANumber})

\* pearsonr(np.arange(n), values), as the sums it is made of:
\* r = (up - down) / sqrt(sxx * syy), undefined for a NaN among the values
\* and for constant values
pearsonr(values) ==
    LET n == Len(values)
        sumx == SumSeq([j \in 1..n |-> j - 1])
        sumy == SumSeq(values)
        xs == [i \in 1..n |-> n * (i - 1) - sumx]
        ys == [i \in 1..n |-> n * values[i] - sumy]
        prod == [i \in 1..n |-> BigMul(Big(Abs(xs[i])), Big(Abs(ys[i])))]
    IN  IF \E i \in 1..n : values[i] = NotANumber THEN [defined |-> FALSE]
        ELSE IF \A i \in 1..n : ys[i] = 0 THEN [defined |-> FALSE]
        ELSE [defined |-> TRUE,
              up |-> BigSum([i \in 1..n |->
                        IF (xs[i] < 0) = (ys[i] < 0) THEN prod[i] ELSE <<>>]),
              down |-> BigSum([i \in 1..n |->
                        IF (xs[i] < 0) = (ys[i] < 0) THEN <<>> ELSE prod[i]]),
              sxx |-> BigSum([i \in 1..n |-> BigMul(Big(Abs(xs[i])), Big(Abs(xs[i])))]),
              syy |-> BigSum([i \in 1..n |-> BigMul(Big(Abs(ys[i])), Big(Abs(ys[i])))])]

\* |r| > 0.5 in place of |r| > 0.3
BeyondHalf(c) ==
    LET sxy == IF BigLess(c.up, c.down) THEN BigSub(c.down, c.up)
               ELSE BigSub(c.up, c.down)
    IN  BigLess(BigMul(c.sxx, c.syy), BigMul(Big(4), BigMul(sxy, sxy)))

\* |r| > 0.3, decided exactly: 100 * (up - down)^2 > 9 * sxx * syy
Beyond(c) ==
    LET sxy == IF BigLess(c.up, c.down) THEN BigSub(c.down, c.up)
               ELSE BigSub(c.up, c.down)
    IN  BigLess(BigMul(Big(9), BigMul(c.sxx, c.syy)),
                BigMul(Big(100), BigMul(sxy, sxy)))

\* TrendBranch without the test for constant values
TrendBranchNoConstant(values) ==
    IF Len(values) < 2 THEN "short" ELSE "correlation"

\* the return statement that calculate_trend reaches
TrendBranch(values) ==
    IF Len(values) < 2 THEN "short"
    ELSE IF DistinctValues(values) = 1 THEN "constant"
    ELSE "correlation"

\* a comparison with an undefined correlation is false, a failed correlation
\* is caught: both are 'stable'
calculate_trend(values) ==
    IF TrendBranch(values) = "short" THEN "unknown"
    ELSE IF TrendBranch(values) = "constant" THEN "stable"
    ELSE LET correlation == pearsonr(values)
         IN  IF ~correlation.defined THEN "stable"
             ELSE IF BigLess(correlation.down, correlation.up) /\ Beyond(correlation)
             THEN "increasing"
             ELSE IF BigLess(correlation.up, correlation.down) /\ Beyond(correlation)
             THEN "decreasing"
             ELSE "stable"

\* the values appended to feature_trajectories[feature]: one for every
\* response whose feature dict has the key
Trajectory(resp, feature) ==
    LET all == AllResponses(resp)
        has == SelectSeq(all, LAMBDA r : feature \in DOMAIN r.features)
    IN  [i \in DOMAIN has |-> has[i].features[feature]]

Stability(trajectory) ==
    [mean |-> Rat(SumSeq(trajectory), Len(trajectory)),
     std |-> Std([i \in DOMAIN trajectory |-> Rat(trajectory[i], 1)]),
     range |-> Rat(MaxSeq(trajectory) - MinSeq(trajectory), 1),
     trend |-> calculate_trend(trajectory)]

\* track_feature_changes with a trajectory for every name it meets
track_feature_changes_tolerant(resp) ==
    LET all == AllResponses(resp)
        names == Range(CanonicalFeatures)
                 \cup UNION {DOMAIN all[i].features : i \in DOMAIN all}
        trajectories == [f \in names |-> Trajectory(resp, f)]
    IN  [trajectories |-> trajectories,
         stability |-> [f \in {g \in names : Len(trajectories[g]) > 1} |->
                           Stability(trajectories[f])]]

\* track_feature_changes with a stability entry for every non-empty
\* trajectory
track_feature_changes_nonempty(resp) ==
    LET all == AllResponses(resp)
        names == Range(CanonicalFeatures)
        trajectories == [f \in names |-> Trajectory(resp, f)]
    IN  IF \E i \in DOMAIN all : ~(DOMAIN all[i].features \subseteq names)
        THEN [error |-> "KeyError"]
        ELSE [trajectories |-> trajectories,
              stability |-> [f \in {g \in names : Len(trajectories[g]) > 0} |->
                                Stability(trajectories[f])]]

track_feature_changes(resp) ==
    LET all == AllResponses(resp)
        names == Range(CanonicalFeatures)
        trajectories == [f \in names |-> Trajectory(resp, f)]
    IN  IF \E i \in DOMAIN all : ~(DOMAIN all[i].features \subseteq names)
        THEN [error |-> "KeyError"]
        ELSE [trajectories |-> trajectories,
              stability |-> [f \in {g \in names : Len(trajectories[g]) > 1} |->
                                Stability(trajectories[f])]]

-----------------------------------------------------------------------------
(* TIDEAnalyzer.analyze_pattern_signatures *)

Count(s, x) == Cardinality({i \in DOMAIN s : s[i] = x})

\* where x is inserted in a dict that counts the elements of s
FirstIndex(s, x) == CHOOSE i \in DOMAIN s : s[i] = x /\ \A j \in 1..(i - 1) : s[j] # x

\* the pattern whose running count is the first to equal the largest count
DominantPatternRunning(labels) ==
    IF labels = <<>> THEN "None"
    ELSE LET most == CHOOSE c \in 1..Len(labels) :
                        /\ \E p \in Range(labels) : Count(labels, p) = c
                        /\ \A p \in Range(labels) : Count(labels, p) <= c
             at == CHOOSE i \in DOMAIN labels :
                      /\ Count(SubSeq(labels, 1, i), labels[i]) = most
                      /\ \A j \in 1..(i - 1) :
                            Count(SubSeq(labels, 1, j), labels[j]) # most
         IN  labels[at]

\* max(counts, key=counts.get): the first key, in insertion order, among
\* those with the largest count
DominantPattern(labels) ==
    IF labels = <<>> THEN "None"
    ELSE CHOOSE p \in Range(labels) :
            /\ \A q \in Range(labels) : Count(labels, q) <= Count(labels, p)
            /\ \A q \in Range(labels) :
                  Count(labels, q) = Count(labels, p) =>
                      FirstIndex(labels, p) <= FirstIndex(labels, q)

\* analyze_pattern_signatures over the responses in the insertion order of
\* the task types
analyze_pattern_signatures_inserted(resp) ==
    LET all == AllResponsesInserted(resp)
        patterns == [i \in DOMAIN all |-> [pattern |-> all[i].pattern, task |-> all[i].task_type]]
        labels == [i \in DOMAIN all |-> all[i].pattern]
        transitions == [i \in 1..(IF Len(labels) = 0 THEN 0 ELSE Len(labels) - 1) |->
                           Arrow(labels[i], labels[i + 1])]
    IN  [all_patterns |-> patterns,
         transitions |-> transitions,
         transition_frequencies |-> [t \in Range(transitions) |-> Count(transitions, t)],
         dominant_pattern |-> DominantPattern(labels),
         pattern_diversity |-> Cardinality(Range(labels))]

analyze_pattern_signatures(resp) ==
    LET all == AllResponses(resp)
        patterns == [i \in DOMAIN all |-> [pattern |-> all[i].pattern, task |-> all[i].task_type]]
        labels == [i \in DOMAIN all |-> all[i].pattern]
        transitions == [i \in 1..(IF Len(labels) = 0 THEN 0 ELSE Len(labels) - 1) |->
                           Arrow(labels[i], labels[i + 1])]
    IN  [all_patterns |-> patterns,
         transitions |-> transitions,
         transition_frequencies |-> [t \in Range(transitions) |-> Count(transitions, t)],
         dominant_pattern |-> DominantPattern(labels),
         pattern_diversity |-> Cardinality(Range(labels))]

-----------------------------------------------------------------------------
(* TIDEAnalyzer.calculate_feature_similarity, calculate_coherence *)

\* 1 - x for a distance x
OneMinus(x) == IF IsNaN(x) THEN NaN ELSE Sim(x.num, x.den2)

\* np.any(vec)
AnyNonZero(vec) == \E i \in DOMAIN vec : vec[i] # 0

\* the keys of both dicts, in one order for both vectors
UnionKeys(features1, features2) ==
    SelectSeq(SortedNames, LAMBDA f : f \in DOMAIN features1 \cup DOMAIN features2)

\* calculate_feature_similarity with both vectors over features1's keys
calculate_feature_similarity_keys1(features1, features2) ==
    LET all_features == SortedKeys(features1)
        vec1 == [i \in DOMAIN all_features |-> Get(features1, all_features[i])]
        vec2 == [i \in DOMAIN all_features |-> Get(features2, all_features[i])]
    IN  IF AnyNonZero(vec1) /\ AnyNonZero(vec2)
        THEN LET c == cosine(vec1, vec2)
             IN  IF IsError(c) THEN Zero
                 ELSE IF IsNaN(OneMinus(c)) THEN Zero ELSE OneMinus(c)
        ELSE Zero

\* calculate_feature_similarity with np.all in place of np.any
calculate_feature_similarity_all(features1, features2) ==
    LET all_features == UnionKeys(features1, features2)
        vec1 == [i \in DOMAIN all_features |-> Get(features1, all_features[i])]
        vec2 == [i \in DOMAIN all_features |-> Get(features2, all_features[i])]
    IN  IF (\A i \in DOMAIN vec1 : vec1[i] # 0) /\ (\A i \in DOMAIN vec2 : vec2[i] # 0)
        THEN LET c == cosine(vec1, vec2)
             IN  IF IsError(c) THEN Zero
                 ELSE IF IsNaN(OneMinus(c)) THEN Zero ELSE OneMinus(c)
        ELSE Zero

calculate_feature_similarity(features1, features2) ==
    LET all_features == UnionKeys(features1, features2)
        vec1 == [i \in DOMAIN all_features |-> Get(features1, all_features[i])]
        vec2 == [i \in DOMAIN all_features |-> Get(features2, all_features[i])]
    IN  IF AnyNonZero(vec1) /\ AnyNonZero(vec2)
        THEN LET c == cosine(vec1, vec2)
             IN  IF IsError(c) THEN Zero
                 ELSE IF IsNaN(OneMinus(c)) THEN Zero ELSE OneMinus(c)
        ELSE Zero

\* the similarities of all pairs i < j of one task type's responses
PairSimilarities(task_features) ==
    LET ps == UpperPairs(Len(task_features), 1, 2)
    IN  [i \in DOMAIN ps |->
            calculate_feature_similarity(task_features[ps[i][1]], task_features[ps[i][2]])]

RECURSIVE ConsistencyFactors(_, _)
ConsistencyFactors(resp, order) ==
    IF order = <<>> THEN <<>>
    ELSE LET t == Head(order)
             task_features == IF t \in DOMAIN resp
                              THEN [i \in DOMAIN resp[t] |-> resp[t][i].features]
                              ELSE <<>>
         IN  (IF Len(task_features) > 1
              THEN <<Mean(PairSimilarities(task_features))>>
              ELSE <<>>) \o ConsistencyFactors(resp, Tail(order))

\* the mean of the response's own task type's feature group
AlignmentScore(r) == Rat(FactorSum(r.features, r.task_type), Len(FactorFeatures(r.task_type)))

calculate_dimensional_alignment(resp) ==
    LET all == AllResponses(resp)
        alignment_scores == [i \in DOMAIN all |-> AlignmentScore(all[i])]
    IN  IF alignment_scores # <<>> THEN Mean(alignment_scores) ELSE Zero

\* calculate_coherence without the dimensional-alignment factor
calculate_coherence_consistency(resp) ==
    LET coherence_factors == ConsistencyFactors(resp, TaskOrder)
    IN  IF coherence_factors # <<>> THEN Mean(coherence_factors) ELSE Zero

calculate_coherence(resp) ==
    LET coherence_factors ==
            ConsistencyFactors(resp, TaskOrder) \o <<calculate_dimensional_alignment(resp)>>
    IN  IF coherence_factors # <<>> THEN Mean(coherence_factors) ELSE Zero

-----------------------------------------------------------------------------
(* TIDEAnalyzer.analyze_session *)

analyze_session(order, resp) ==
    LET shifts == calculate_dimensional_shifts(resp)
        tagged == TagTaskTypes(resp)
        rsa == analyze_patterns(order, tagged)
        trajectories == track_feature_changes(tagged)
    IN  IF IsError(rsa) THEN [status |-> "raised", error |-> rsa.error]
        ELSE IF IsError(trajectories)
        THEN [status |-> "raised", error |-> trajectories.error]
        ELSE [status |-> "ok",
              dimensional_shifts |-> shifts,
              rsa_patterns |-> convert_rsa_to_serializable(rsa),
              feature_trajectories |-> trajectories,
              pattern_evolution |-> analyze_pattern_signatures(tagged),
              coherence_score |-> calculate_coherence(tagged)]

-----------------------------------------------------------------------------
(* Rational arithmetic for the sums and means over a batch *)

RECURSIVE GCD(_, _)
GCD(a, b) == IF b = 0 THEN a ELSE GCD(b, a % b)

\* n / d in lowest terms, d > 0
RatNorm(n, d) ==
    LET g == GCD(Abs(n), d) IN Rat(n \div g, d \div g)

RatAdd(x, y) == RatNorm(x.num * y.den + y.num * x.den, x.den * y.den)
RatTimes(x, y) == RatNorm(x.num * y.num, x.den * y.den)
RatAbs(x) == Rat(Abs(x.num), x.den)
RatLess(x, y) == x.num * y.den < y.num * x.den

RECURSIVE RatSumTo(_, _)
RatSumTo(s, n) == IF n = 0 THEN Rat(0, 1) ELSE RatAdd(s[n], RatSumTo(s, n - 1))

\* float(np.mean(s)) if s else 0.0
RatMean(s) ==
    IF s = <<>> THEN Rat(0, 1)
    ELSE LET t == RatSumTo(s, Len(s)) IN RatNorm(t.num, t.den * Len(s))

-----------------------------------------------------------------------------
(* TIDEAnalyzer.analyze_all_sessions and the functions it calls *)

\* the lists of a batch, one after the other
RECURSIVE Concat(_)
Concat(lists) == IF lists = <<>> THEN <<>> ELSE Head(lists) \o Concat(Tail(lists))

NoClearPattern == <<"No clear pattern">>

\* all_transitions[transition]: the sessions' frequencies of it, summed
SummedFrequency(all, transition) ==
    SumSeq([i \in DOMAIN all |->
               LET transitions == all[i].analysis.pattern_evolution.transition_frequencies
               IN  IF transition \in DOMAIN transitions THEN transitions[transition] ELSE 0])

\* the first transition of the batch: the first key of all_transitions
analyze_cross_session_patterns_first(all) ==
    LET order == Concat([i \in DOMAIN all |-> all[i].analysis.pattern_evolution.transitions])
    IN  IF order = <<>> THEN NoClearPattern ELSE order[1]

\* the keys of all_transitions are inserted session by session, and within a
\* session in the order of first occurrence; max() returns the first key
\* among those with the largest sum
analyze_cross_session_patterns(all) ==
    LET order == Concat([i \in DOMAIN all |-> all[i].analysis.pattern_evolution.transitions])
    IN  IF order = <<>> THEN NoClearPattern
        ELSE CHOOSE t \in Range(order) :
                /\ \A u \in Range(order) : SummedFrequency(all, u) <= SummedFrequency(all, t)
                /\ \A u \in Range(order) :
                      SummedFrequency(all, u) = SummedFrequency(all, t) =>
                          FirstIndex(order, t) <= FirstIndex(order, u)

\* the results of one model, in batch order
OfModel(all, model) == SelectSeq(all, LAMBDA r : r.model = model)

compare_models(all) ==
    [model \in {all[i].model : i \in DOMAIN all} |->
        LET mine == OfModel(all, model)
            coherence_scores == [i \in DOMAIN mine |-> mine[i].analysis.coherence_score]
            pattern_diversity == [i \in DOMAIN mine |->
                                    mine[i].analysis.pattern_evolution.pattern_diversity]
        IN  [coherence_scores |-> coherence_scores,
             shift_magnitudes |-> <<>>,
             pattern_diversity |-> pattern_diversity,
             avg_coherence |-> Mean(coherence_scores),
             avg_diversity |-> Rat(SumSeq(pattern_diversity), Len(pattern_diversity))]]

\* every response of every session of the batch
BatchResponses(all) ==
    Concat([i \in DOMAIN all |-> ValuesFlat(all[i].data.keys, all[i].data.responses)])

\* the mean over the responses of the mean of the factor's features
FactorMean(rs, factor) ==
    IF rs = <<>> THEN Rat(0, 1)
    ELSE RatNorm(SumSeq([i \in DOMAIN rs |-> FactorSum(rs[i].features, factor)]),
                 Len(FactorFeatures(factor)) * Len(rs))

\* the mean over the sessions of the factor's mean in the session
FactorMeanOfSessions(all, factor) ==
    RatMean([i \in DOMAIN all |->
                FactorMean(ValuesFlat(all[i].data.keys, all[i].data.responses), factor)])

\* the largest score, among equal ones the first in the order concrete,
\* internal, external
FirstLargestCanonical(avg_scores) ==
    LET first == CHOOSE i \in DOMAIN TaskOrder :
                    /\ \A j \in DOMAIN TaskOrder :
                          ~RatLess(avg_scores[TaskOrder[i]], avg_scores[TaskOrder[j]])
                    /\ \A j \in 1..(i - 1) :
                          RatLess(avg_scores[TaskOrder[j]], avg_scores[TaskOrder[i]])
    IN  TaskOrder[first]

\* max(avg_scores, key=avg_scores.get) over the keys internal, external,
\* concrete: the first of the largest
FirstLargest(avg_scores) ==
    LET order == <<"internal", "external", "concrete">>
        first == CHOOSE i \in DOMAIN order :
                    /\ \A j \in DOMAIN order : ~RatLess(avg_scores[order[i]], avg_scores[order[j]])
                    /\ \A j \in 1..(i - 1) : RatLess(avg_scores[order[j]], avg_scores[order[i]])
    IN  order[first]

\* identify_dominant_processing_mode over the means of the sessions' means
identify_dominant_processing_mode_sessions(all) ==
    FirstLargest([factor \in TaskTypes |-> FactorMeanOfSessions(all, factor)])

identify_dominant_processing_mode(all) ==
    FirstLargest([factor \in TaskTypes |-> FactorMean(BatchResponses(all), factor)])

\* the shifts of every session of the batch
BatchShifts(all) == Concat([i \in DOMAIN all |-> all[i].analysis.dimensional_shifts])

\* the threshold 0.1 and the factor 1.5
ShiftThreshold == Rat(1, 10)
DominanceFactor == Rat(3, 2)

\* the absolute values of the deltas, a delta within the threshold as 0.0
ScoresWithZeros(deltas) ==
    [i \in DOMAIN deltas |->
        IF RatLess(ShiftThreshold, RatAbs(deltas[i])) THEN RatAbs(deltas[i]) ELSE Rat(0, 1)]

\* the absolute values of the deltas beyond the threshold
Scores(deltas) ==
    LET over == SelectSeq(deltas, LAMBDA d : RatLess(ShiftThreshold, RatAbs(d)))
    IN  [i \in DOMAIN over |-> RatAbs(over[i])]

calculate_internal_external_balance(all) ==
    LET shifts == BatchShifts(all)
        internal_scores == Scores([i \in DOMAIN shifts |-> shifts[i].internal_delta])
        external_scores == Scores([i \in DOMAIN shifts |-> shifts[i].external_delta])
        avg_internal == RatMean(internal_scores)
        avg_external == RatMean(external_scores)
    IN  IF RatLess(RatTimes(avg_external, DominanceFactor), avg_internal)
        THEN "Internal-dominant"
        ELSE IF RatLess(RatTimes(avg_internal, DominanceFactor), avg_external)
        THEN "External-dominant"
        ELSE "Balanced"

\* sqrt(internal^2 + external^2 + concrete^2)
Magnitude(shift) ==
    [k |-> "norm", of |-> <<shift.internal_delta, shift.external_delta, shift.concrete_delta>>]

analyze_all_sessions(all) ==
    LET coherence_scores == [i \in DOMAIN all |-> all[i].analysis.coherence_score]
        shifts == BatchShifts(all)
        all_shifts == [i \in DOMAIN shifts |-> Magnitude(shifts[i])]
    IN  [status |-> "ok",
         total_sessions |-> Len(all),
         models_tested |-> {all[i].model : i \in DOMAIN all},
         avg_pattern_coherence |-> IF coherence_scores # <<>> THEN Mean(coherence_scores) ELSE Zero,
         dimensional_shift_magnitude |-> IF all_shifts # <<>> THEN Mean(all_shifts) ELSE Zero,
         pattern_evolution |-> analyze_cross_session_patterns(all),
         model_comparisons |-> compare_models(all),
         dominant_mode |-> identify_dominant_processing_mode(all),
         ie_balance |-> calculate_internal_external_balance(all)]

-----------------------------------------------------------------------------
(* create_scientific_summary.calculate_comprehensive_stats *)

\* the coherence scores of one model's sessions, in batch order
CoherenceOf(all_sessions, model) ==
    LET mine == OfModel(all_sessions, model)
    IN  [i \in DOMAIN mine |-> mine[i].analysis.coherence_score]

AllSame(scores) == \A i, j \in DOMAIN scores : scores[i] = scores[j]

\* np.std(scores) is 0.0 when the scores are identical and their mean is
\* computed without a rounding error (it always is for two scores)
ZeroStd(scores, exact) == AllSame(scores) /\ (Len(scores) = 2 \/ exact)

\* scipy_stats.t.interval(0.95, n-1, mean, se): mean -/+ t * se, and NaN at
\* both ends when the scale se is 0
Interval(scores, exact) ==
    IF ZeroStd(scores, exact) THEN [lower |-> NaN, upper |-> NaN]
    ELSE [lower |-> [k |-> "mean - t * se", of |-> scores],
          upper |-> [k |-> "mean + t * se", of |-> scores]]

ConfidenceInterval(scores, exact) ==
    [mean |-> Mean(scores),
     std |-> IF ZeroStd(scores, exact) THEN Rat(0, 1) ELSE Std(scores),
     ci_lower |-> Interval(scores, exact).lower,
     ci_upper |-> Interval(scores, exact).upper,
     n |-> Len(scores)]

\* len(unique_models) >= 2 and all(len(coherence_by_model.get(m, [])) >= 2 ...)
EnoughData(all_sessions) ==
    LET unique_models == {all_sessions[i].model : i \in DOMAIN all_sessions}
    IN  /\ Cardinality(unique_models) >= 2
        /\ \A model \in unique_models : Len(CoherenceOf(all_sessions, model)) >= 2

\* scipy_stats.f_oneway(*model_groups): 0/0 = NaN when every sample has the
\* same value
Anova(groups) ==
    IF \A g, h \in DOMAIN groups : \A i \in DOMAIN groups[g], j \in DOMAIN groups[h] :
          groups[g][i] = groups[h][j]
    THEN [f_statistic |-> NaN, p_value |-> NaN, significant |-> [k |-> "bool", value |-> FALSE]]
    ELSE [f_statistic |-> [k |-> "F", of |-> groups],
          p_value |-> [k |-> "p", of |-> groups],
          significant |-> [k |-> "p < 0.05", of |-> groups]]

calculate_comprehensive_stats(all_sessions, exact) ==
    LET unique_models == {all_sessions[i].model : i \in DOMAIN all_sessions}
        coherence_by_model == [model \in unique_models |-> CoherenceOf(all_sessions, model)]
    IN  [status |-> "ok",
         overview |-> [total_sessions |-> Len(all_sessions),
                       total_responses |-> Len(BatchResponses(all_sessions)),
                       unique_models |-> unique_models],
         by_model |-> [model \in unique_models |->
                          [sessions |-> Len(OfModel(all_sessions, model)),
                           responses |-> Len(BatchResponses(OfModel(all_sessions, model))),
                           coherence_scores |-> coherence_by_model[model]]],
         confidence_intervals |->
             [model \in {m \in unique_models : Len(coherence_by_model[m]) >= 2} |->
                 ConfidenceInterval(coherence_by_model[model], exact)],
         statistical_tests |->
             IF EnoughData(all_sessions)
             THEN [anova |-> Anova(coherence_by_model)]
             ELSE <<>>]

-----------------------------------------------------------------------------
(* The state machine *)

NoCall == [called |-> FALSE]
NoResults == [status |-> "none"]
NoWeek == [pc |-> "none"]

TotalResponses == SumSeq([i \in DOMAIN keys |-> Len(responses[keys[i]])])

\* nothing collected, nothing analysed, no call made
Idle ==
    /\ keys = <<>>
    /\ responses = <<>>
    /\ results = NoResults
    /\ again = NoResults
    /\ all_results = <<>>
    /\ cross = NoResults
    /\ stats = NoResults
    /\ week = NoWeek
    /\ balance_call = NoCall

Init ==
    /\ Idle
    /\ sim_call = NoCall
    /\ cmp_call = NoCall
    /\ trend_call = NoCall

\* run_session: session_data['responses'][task_type] = responses, for the
\* task types in a shuffled order
AddTask(task_type) ==
    /\ results.status = "none"
    /\ task_type \notin Range(keys)
    /\ keys' = Append(keys, task_type)
    /\ responses' = [t \in Range(keys) \cup {task_type} |->
                        IF t = task_type THEN <<>> ELSE responses[t]]
    /\ UNCHANGED <<results, again, callVars, batchVars>>

\* run_session: responses.append(response_data), for the task type that is
\* being collected
AddResponse(pool, max) ==
    /\ results.status = "none"
    /\ keys # <<>>
    /\ TotalResponses < max
    /\ \E r \in pool :
          responses' = [responses EXCEPT ![keys[Len(keys)]] = Append(@, r)]
    /\ UNCHANGED <<keys, results, again, callVars, batchVars>>

\* results = analyzer.analyze_session(session_data)
AnalyzeSession ==
    /\ results.status = "none"
    /\ results' = analyze_session(keys, responses)
    /\ responses' = TagTaskTypes(responses)
    /\ UNCHANGED <<keys, again, callVars, batchVars>>

Next ==
    \/ \E t \in TaskTypes : AddTask(t)
    \/ AddResponse(ResponsePool, MaxResponses)
    \/ AnalyzeSession

Spec == Init /\ [][Next]_vars

\* a session whose responses differ in their patterns only
NextPat ==
    \/ \E t \in TaskTypes : AddTask(t)
    \/ AddResponse(PatternPool, MaxPatterns)
    \/ AnalyzeSession

SpecPat == Init /\ [][NextPat]_vars

\* a session whose responses may carry a feature name that is not canonical
NextExtra ==
    \/ \E t \in TaskTypes : AddTask(t)
    \/ AddResponse(ExtraPool, MaxExtra)
    \/ AnalyzeSession

SpecExtra == Init /\ [][NextExtra]_vars

\* a second analyzer.analyze_session(session_data) on the same object, whose
\* responses the first call has tagged
AnalyzeAgain ==
    /\ results.status # "none"
    /\ again.status = "none"
    /\ again' = analyze_session(keys, responses)
    /\ responses' = TagTaskTypes(responses)
    /\ UNCHANGED <<keys, results, callVars, batchVars>>

NextTwice ==
    \/ \E t \in TaskTypes : AddTask(t)
    \/ AddResponse(ResponsePool, MaxTwice)
    \/ AnalyzeSession
    \/ AnalyzeAgain

SpecTwice == Init /\ [][NextTwice]_vars

-----------------------------------------------------------------------------
(* The batch: run_automated_collection_week, and the scientific summary *)

\* four sessions: two task types collected in the order internal, concrete;
\* three responses of one type; a single response; and a session whose
\* analysis fails (feature dicts of unequal sizes)
SessionPool ==
    LET full == Response([social |-> 1, visual |-> 1], <<"rain", "falls">>, "CCDS")
        social == Response([social |-> 1, visual |-> 0], <<"Rain">>, "AAFS")
        visual == Response([visual |-> 1], <<"Rain">>, "AAFS")
    IN  { [keys |-> <<"internal", "concrete">>,
           responses |-> [internal |-> <<social>>, concrete |-> <<full>>]],
          [keys |-> <<"internal">>, responses |-> [internal |-> <<social, full, social>>]],
          [keys |-> <<"external">>, responses |-> [external |-> <<visual>>]],
          [keys |-> <<"concrete">>, responses |-> [concrete |-> <<full, visual>>]] }

\* session_data after analyze_session, and its analysis_results
Analysis(session) ==
    [data |-> [keys |-> session.keys, responses |-> TagTaskTypes(session.responses)],
     analysis |-> analyze_session(session.keys, session.responses)]

BatchPool == {Analysis(session) : session \in SessionPool}

\* the sessions of SpecStats: those with fewer than 3 responses
StatsPool == {e \in BatchPool : Len(ValuesFlat(e.data.keys, e.data.responses)) < 3}

Models == {"model-a", "model-b"}
StatsModels == Models \cup {"model-c"}

\* one round of the collection loop: run a session, analyse it and append the
\* packaged result; a session whose analysis raises is skipped
RunSession(models, pool, max) ==
    /\ cross.status = "none"
    /\ stats.status = "none"
    /\ Len(all_results) < max
    /\ \E model \in models, e \in pool :
          all_results' =
              IF e.analysis.status = "ok"
              THEN Append(all_results,
                          [model |-> model, data |-> e.data, analysis |-> e.analysis])
              ELSE all_results
    /\ UNCHANGED <<keys, responses, results, again, callVars, cross, stats, week>>

\* cross_analysis = analyzer.analyze_all_sessions(all_results)
AnalyzeAll ==
    /\ cross.status = "none"
    /\ cross' = analyze_all_sessions(all_results)
    /\ UNCHANGED <<keys, responses, results, again, callVars, all_results, stats, week>>

\* stats = calculate_comprehensive_stats(all_sessions), on the saved batch;
\* the mean of 3 or more identical scores is exact or carries a rounding error
ComprehensiveStats ==
    /\ stats.status = "none"
    /\ \E exact \in BOOLEAN :
          stats' = calculate_comprehensive_stats(all_results, exact)
    /\ UNCHANGED <<keys, responses, results, again, callVars, all_results, cross, week>>

NextBatch ==
    \/ RunSession(Models, BatchPool, MaxSessions)
    \/ AnalyzeAll

SpecBatch == Init /\ [][NextBatch]_vars

NextStats ==
    \/ RunSession(StatsModels, StatsPool, MaxSamples)
    \/ ComprehensiveStats

SpecStats == Init /\ [][NextStats]_vars

\* extract_14_features: a dict of all 14 names, here with one value for the
\* features of each group
GroupFeatures(i, e, c) ==
    [f \in Range(CanonicalFeatures) |->
        IF f \in Range(internal_features) THEN i
        ELSE IF f \in Range(external_features) THEN e
        ELSE c]

\* sessions of one response, one for every choice of 0 or 1 for the three
\* groups, and a session without any response
ModeSessions ==
    { [keys |-> TaskOrder,
       responses |-> [concrete |-> <<Response(GroupFeatures(i, e, c), <<"rain">>, "AAFS")>>,
                      internal |-> <<>>, external |-> <<>>]] :
          i \in 0..MaxValue, e \in 0..MaxValue, c \in 0..MaxValue }
    \cup { [keys |-> TaskOrder,
            responses |-> [concrete |-> <<>>, internal |-> <<>>, external |-> <<>>]] }

ModePool == {Analysis(session) : session \in ModeSessions}

NextMode ==
    \/ RunSession({"model-a"}, ModePool, MaxModeSessions)
    \/ AnalyzeAll

SpecMode == Init /\ [][NextMode]_vars

-----------------------------------------------------------------------------
(* run_automated_collection_week, step by step *)

\* config['models']
WeekModels == <<"model-a", "model-b">>

\* what collector.run_session returns in these runs: a session of two
\* responses that is analysed, and one whose analysis raises
WeekPool == {e \in BatchPool : Len(ValuesFlat(e.data.keys, e.data.responses)) = 2}

\* the state after the setup: the loop is at the first model's session 0
StartWeek ==
    [pc |-> "collect", model_idx |-> 1, session_num |-> 0, session_data |-> NoResults,
     printed |-> <<>>, checkpoints |-> {}, waits |-> {}]

\* the (model, session number) pair the loop is at
Round(w) == <<WeekModels[w.model_idx], w.session_num>>

\* the next round of the two for loops, or the code after them
NextRound(w) ==
    IF w.session_num + 1 < SessionsPerModel
    THEN [w EXCEPT !.pc = "collect", !.session_num = @ + 1, !.session_data = NoResults]
    ELSE IF w.model_idx < Len(WeekModels)
    THEN [w EXCEPT !.pc = "collect", !.model_idx = @ + 1, !.session_num = 0,
                   !.session_data = NoResults]
    ELSE [w EXCEPT !.pc = "final", !.session_data = NoResults]

\* what the round prints after "Session i/n...": Complete! or Error: <e>
Line(w, text) == [round |-> Round(w), line |-> text]

\* an exception that leaves the function
ExceptRaise(w, e) == [w EXCEPT !.pc = "raised", !.printed = Append(@, Line(w, e))]

\* except Exception as e: print(f" Error: {str(e)}"); continue
Except(w, e) == NextRound([w EXCEPT !.printed = Append(@, Line(w, e))])

\* a wait after every round, the last of its model included
RateLimitAlways(w) == [w EXCEPT !.waits = @ \cup {Round(w)}]

\* if session_num < sessions_per_model - 1: time.sleep(wait_time)
RateLimitWait(w) ==
    IF w.session_num < SessionsPerModel - 1
    THEN [w EXCEPT !.waits = @ \cup {Round(w)}]
    ELSE w

\* config = load_config(); create_directories(); ...; all_results = []
StartCollection ==
    /\ week.pc = "none"
    /\ week' = StartWeek
    /\ UNCHANGED <<keys, responses, results, again, callVars, all_results, cross, stats>>

\* session_data = collector.run_session(model), which may raise
CollectSession ==
    /\ week.pc = "collect"
    /\ \/ \E e \in WeekPool : week' = [week EXCEPT !.pc = "analyse", !.session_data = e]
       \/ week' = Except(week, "Exception")
    /\ UNCHANGED <<keys, responses, results, again, callVars, all_results, cross, stats>>

\* analysis_results = analyzer.analyze_session(session_data), which may raise
AnalyseCollected ==
    /\ week.pc = "analyse"
    /\ week' = IF week.session_data.analysis.status = "ok"
               THEN [week EXCEPT !.pc = "append"]
               ELSE Except(week, week.session_data.analysis.error)
    /\ UNCHANGED <<keys, responses, results, again, callVars, all_results, cross, stats>>

\* full_result = {...}; all_results.append(full_result)
AppendResult ==
    /\ week.pc = "append"
    /\ all_results' = Append(all_results,
                             [model |-> Round(week)[1],
                              session |-> Round(week)[2],
                              data |-> week.session_data.data,
                              analysis |-> week.session_data.analysis])
    /\ week' = [week EXCEPT !.pc = "checkpoint"]
    /\ UNCHANGED <<keys, responses, results, again, callVars, cross, stats>>

\* with open(checkpoint_path, 'w') as f: json.dump(full_result, f), which
\* may raise (OSError); print(" Complete!")
WriteCheckpoint ==
    /\ week.pc = "checkpoint"
    /\ \/ week' = [week EXCEPT !.pc = "rate_limit",
                               !.checkpoints = @ \cup {Round(week)},
                               !.printed = Append(@, Line(week, "Complete"))]
       \/ week' = Except(week, "OSError")
    /\ UNCHANGED <<keys, responses, results, again, callVars, all_results, cross, stats>>

\* the rate limiting, and the end of the round
RateLimit ==
    /\ week.pc = "rate_limit"
    /\ week' = NextRound(RateLimitWait(week))
    /\ UNCHANGED <<keys, responses, results, again, callVars, all_results, cross, stats>>

\* after the loops: the raw data is saved and
\* cross_analysis = analyzer.analyze_all_sessions(all_results)
CrossAnalysis ==
    /\ week.pc = "final"
    /\ cross' = analyze_all_sessions(all_results)
    /\ week' = [week EXCEPT !.pc = "done"]
    /\ UNCHANGED <<keys, responses, results, again, callVars, all_results, stats>>

NextWeek ==
    \/ StartCollection
    \/ CollectSession
    \/ AnalyseCollected
    \/ AppendResult
    \/ WriteCheckpoint
    \/ RateLimit
    \/ CrossAnalysis

SpecWeek == Init /\ [][NextWeek]_vars

\* a round of the loops
LoopStep ==
    \/ StartCollection
    \/ CollectSession
    \/ AnalyseCollected
    \/ AppendResult
    \/ WriteCheckpoint
    \/ RateLimit

\* the step from the end of the loops to the end of the analysis
AfterLoops == week.pc = "final" /\ week' = [week EXCEPT !.pc = "done"]

\* the function runs on: no round of the loops stops for ever, and neither
\* does the code after them
FairWeek == SpecWeek /\ WF_vars(LoopStep) /\ WF_week(AfterLoops)

-----------------------------------------------------------------------------
(* calculate_feature_similarity on its own *)

InitSim ==
    /\ Idle
    /\ cmp_call = NoCall
    /\ trend_call = NoCall
    /\ sim_call \in {[called |-> FALSE, features1 |-> a, features2 |-> b] :
                        a \in SimDicts, b \in SimDicts}

FeatureSimilarity ==
    /\ ~sim_call.called
    /\ "features1" \in DOMAIN sim_call
    /\ sim_call' = [called |-> TRUE,
                    features1 |-> sim_call.features1,
                    features2 |-> sim_call.features2,
                    result |-> calculate_feature_similarity(sim_call.features1,
                                                            sim_call.features2)]
    /\ UNCHANGED <<keys, responses, results, again, cmp_call, trend_call, balance_call,
                   batchVars>>

SpecSim == InitSim /\ [][FeatureSimilarity]_vars

-----------------------------------------------------------------------------
(* compare_rdms on its own *)

\* the entries of the matrices: 0.0, 0.5, 1.0 and NaN
RdmEntries == {DistZero, Dist(1, 4), DistOne, NaN}

SquareRdms(n) == {Square(n, upper) : upper \in [Pairs(n) -> RdmEntries]}

\* np.array([]) and the symmetric zero-diagonal matrices up to MaxDim
RdmPool == {EmptyRdm} \cup UNION {SquareRdms(n) : n \in 1..MaxDim}

InitCmp ==
    /\ Idle
    /\ sim_call = NoCall
    /\ trend_call = NoCall
    /\ cmp_call \in {[called |-> FALSE, rdm1 |-> a, rdm2 |-> b] :
                        a \in RdmPool, b \in RdmPool}

CompareRdms ==
    /\ ~cmp_call.called
    /\ "rdm1" \in DOMAIN cmp_call
    /\ cmp_call' = [called |-> TRUE,
                    rdm1 |-> cmp_call.rdm1,
                    rdm2 |-> cmp_call.rdm2,
                    result |-> compare_rdms(cmp_call.rdm1, cmp_call.rdm2)]
    /\ UNCHANGED <<keys, responses, results, again, sim_call, trend_call, balance_call,
                   batchVars>>

SpecCmp == InitCmp /\ [][CompareRdms]_vars

-----------------------------------------------------------------------------
(* calculate_trend on its own *)

\* the values of a trajectory that rises by 1 per response and by jump more
\* at the last one
Ramp(n, jump) == [i \in 1..n |-> IF i = n THEN n - 1 + jump ELSE i - 1]

Reverse(s) == [i \in DOMAIN s |-> s[Len(s) + 1 - i]]

\* the last step of a ramp with a late jump
RampJump == 100000

Ramps == {Ramp(n, jump) : n \in 2..MaxRampLen, jump \in {0, RampJump}}

\* every short list of small values, lists with NaN among their values,
\* and the ramps and their reverses
TrendPool ==
    UNION {[1..n -> 0..MaxTrendValue] : n \in 0..MaxTrendLen}
    \cup UNION {[1..n -> {0, 1, NotANumber}] : n \in 0..MaxTrendLen}
    \cup Ramps \cup {Reverse(r) : r \in Ramps}

InitTrend ==
    /\ Idle
    /\ sim_call = NoCall
    /\ cmp_call = NoCall
    /\ trend_call \in {[called |-> FALSE, values |-> v] : v \in TrendPool}

CalculateTrend ==
    /\ ~trend_call.called
    /\ "values" \in DOMAIN trend_call
    /\ trend_call' = [called |-> TRUE,
                      values |-> trend_call.values,
                      branch |-> TrendBranch(trend_call.values),
                      result |-> calculate_trend(trend_call.values)]
    /\ UNCHANGED <<keys, responses, results, again, sim_call, cmp_call, balance_call,
                   batchVars>>

SpecTrend == InitTrend /\ [][CalculateTrend]_vars

-----------------------------------------------------------------------------
(* calculate_internal_external_balance on its own *)

\* a shift whose internal and external deltas are i / 20 and e / 20
LoadedShift(i, e) ==
    [transition |-> Arrow("concrete", "concrete"),
     internal_delta |-> Rat(i, 20),
     external_delta |-> Rat(e, 20),
     concrete_delta |-> Rat(0, 1),
     pattern_change |-> Arrow("AAFS", "AAFS")]

\* deltas of 0, within the threshold (0.05), at it (0.1) and beyond it
ShiftPool ==
    { LoadedShift(0, 0), LoadedShift(2, -2), LoadedShift(3, 0), LoadedShift(6, 4),
      LoadedShift(-4, 6), LoadedShift(2, -3), LoadedShift(1, 6) }

\* the shift lists of the sessions: none, one shift, or two
LoadedSessions ==
    {<<>>} \cup {<<shift>> : shift \in ShiftPool}
    \cup {<<LoadedShift(6, 4), LoadedShift(2, -2)>>}

\* the results of a batch, as far as the function reads them
LoadedBatches ==
    UNION {[1..n -> {[analysis |-> [dimensional_shifts |-> shifts]] :
                        shifts \in LoadedSessions}] : n \in 0..MaxLoaded}

InitBal ==
    /\ keys = <<>>
    /\ responses = <<>>
    /\ results = NoResults
    /\ again = NoResults
    /\ cross = NoResults
    /\ stats = NoResults
    /\ week = NoWeek
    /\ sim_call = NoCall
    /\ cmp_call = NoCall
    /\ trend_call = NoCall
    /\ balance_call = NoCall
    /\ all_results \in LoadedBatches

InternalExternalBalance ==
    /\ ~balance_call.called
    /\ balance_call' = [called |-> TRUE,
                        result |-> calculate_internal_external_balance(all_results)]
    /\ UNCHANGED <<keys, responses, results, again, sim_call, cmp_call, trend_call,
                   batchVars>>

SpecBal == InitBal /\ [][InternalExternalBalance]_vars

-----------------------------------------------------------------------------
(* Claims *)

Analysed == results.status # "none"
Ok == results.status = "ok"

\* the responses of one task type, tagged, or none when the key is absent
OfType(t) ==
    IF t \in DOMAIN responses
    THEN [i \in DOMAIN responses[t] |-> [responses[t][i] EXCEPT !.task_type = t]]
    ELSE <<>>

\* the session's responses in the order concrete, internal, external
Canonical == OfType("concrete") \o OfType("internal") \o OfType("external")

\* the session's responses in the insertion order of the task types
Inserted == ValuesFlat(keys, responses)

\* C1: analyze_session never raises on a well-typed session, and returns
\* the five keys
C1_NeverRaises ==
    Analysed =>
        /\ results.status = "ok"
        /\ DOMAIN results = {"status", "dimensional_shifts", "rsa_patterns",
                             "feature_trajectories", "pattern_evolution",
                             "coherence_score"}

\* C2: every numeric leaf of the result is a finite number, never NaN
C2_AllFinite ==
    Ok =>
        /\ \A i \in DOMAIN results.dimensional_shifts :
              LET sh == results.dimensional_shifts[i]
              IN  ~IsNaN(sh.internal_delta) /\ ~IsNaN(sh.external_delta)
                  /\ ~IsNaN(sh.concrete_delta)
        /\ \A key \in DOMAIN results.rsa_patterns.rdms :
              /\ ~IsNaN(results.rsa_patterns.rdms[key].mean)
              /\ ~IsNaN(results.rsa_patterns.rdms[key].std)
        /\ \A key \in DOMAIN results.rsa_patterns.comparisons :
              ~IsNaN(results.rsa_patterns.comparisons[key])
        /\ \A f \in DOMAIN results.feature_trajectories.stability :
              LET st == results.feature_trajectories.stability[f]
              IN  ~IsNaN(st.mean) /\ ~IsNaN(st.std) /\ ~IsNaN(st.range)
        /\ ~IsNaN(results.coherence_score)

\* one shift per adjacent pair of the canonical flattening, in order
ShiftsOfCanonical(shifts) ==
    /\ Len(shifts) = (IF Len(Canonical) < 2 THEN 0 ELSE Len(Canonical) - 1)
    /\ \A i \in DOMAIN shifts : shifts[i] = ShiftData(Canonical[i], Canonical[i + 1])

\* C3: calculate_dimensional_shifts flattens in the order concrete,
\* internal, external, whatever the insertion order, and returns one shift
\* per adjacent pair: max(0, N-1) shifts, shift i from responses i and i+1
C3_ShiftsPerAdjacentPair ==
    /\ ShiftsOfCanonical(calculate_dimensional_shifts(responses))
    /\ Ok => ShiftsOfCanonical(results.dimensional_shifts)

C3_Witness ==
    /\ Ok
    /\ Len(results.dimensional_shifts) = 2
    /\ keys = <<"external", "concrete", "internal">>
    /\ \A i \in DOMAIN keys : Len(responses[keys[i]]) = 1

\* C4: every one of the 14 trajectories holds one value per response, in
\* canonical order, 0 where the response lacks the feature
C4_TrajectoryPerResponse ==
    Ok =>
        \A f \in Range(CanonicalFeatures) :
            LET tr == results.feature_trajectories.trajectories[f]
            IN  /\ Len(tr) = Len(Canonical)
                /\ \A i \in DOMAIN tr : tr[i] = Get(Canonical[i].features, f)

\* the vector of a feature dict over all names, a missing feature as 0
Aligned(features) == [i \in DOMAIN SortedNames |-> Get(features, SortedNames[i])]

\* C5: create_feature_rdm does not fail, and entry (i, j) is the cosine
\* distance of the two responses' vectors aligned by feature name
C5_AlignedByName ==
    LET rdm == create_feature_rdm(keys, responses)
    IN  Len(Inserted) >= 2 =>
            /\ ~IsError(rdm)
            /\ \A i, j \in DOMAIN Inserted :
                  i # j =>
                     LET want == cosine(Aligned(Inserted[i].features),
                                        Aligned(Inserted[j].features))
                     IN  \/ IsNaN(want) /\ IsNaN(rdm.at[<<i, j>>])
                         \/ DistEq(want, rdm.at[<<i, j>>])

-----------------------------------------------------------------------------
(* Claims on the pattern signatures *)

\* the pattern labels of the session in canonical order
Labels == [i \in DOMAIN Canonical |-> Canonical[i].pattern]

\* C6 as stated: the dominant pattern is the one whose running count is the
\* first to equal the final maximum
C6_FirstToReachMaximum ==
    Ok => results.pattern_evolution.dominant_pattern = DominantPatternRunning(Labels)

\* C6, amended: the dominant pattern has the largest count, and among the
\* patterns with that count it is the one met first in the flattened list
C6_FirstMetAmongMaximal ==
    Ok =>
        LET d == results.pattern_evolution.dominant_pattern
        IN  IF Labels = <<>> THEN d = "None"
            ELSE /\ d \in Range(Labels)
                 /\ \A q \in Range(Labels) :
                       \/ Count(Labels, q) < Count(Labels, d)
                       \/ /\ Count(Labels, q) = Count(Labels, d)
                          /\ \A i \in DOMAIN Labels :
                                Labels[i] = q => \E j \in 1..i : Labels[j] = d

C6_Witness ==
    /\ Ok
    /\ Len(Labels) = 4
    /\ Labels[1] = Labels[4] /\ Labels[2] = Labels[3] /\ Labels[1] # Labels[2]
    /\ results.pattern_evolution.dominant_pattern = Labels[1]

-----------------------------------------------------------------------------
(* Claims on calculate_feature_similarity *)

\* the float is exactly 1.0
IsOne(x) == x.k = "sim" /\ x.num > 0 /\ x.num * x.num = x.den2

\* C7 as stated: identical feature dicts have similarity 1.0 exactly
C7_IdenticalIsOne ==
    (sim_call.called /\ sim_call.features1 = sim_call.features2) =>
        IsOne(sim_call.result)

\* C7, amended: identical feature dicts with at least one non-zero value have
\* similarity 1.0 exactly; identical all-zero or empty dicts have 0.0
C7_IdenticalNonZeroIsOne ==
    (sim_call.called /\ sim_call.features1 = sim_call.features2) =>
        IF \E f \in DOMAIN sim_call.features1 : sim_call.features1[f] # 0
        THEN IsOne(sim_call.result)
        ELSE sim_call.result = Zero

C7_Witness ==
    /\ sim_call.called
    /\ sim_call.features1 = sim_call.features2
    /\ DOMAIN sim_call.features1 = KeyPool
    /\ \E f, g \in KeyPool : sim_call.features1[f] = 0 /\ sim_call.features1[g] # 0
    /\ IsOne(sim_call.result)

\* C8: the vectors range over the union of the keys, a missing key as 0; the
\* result is 0.0 when either vector is all zero (two empty dicts included),
\* the cosine similarity otherwise, and never an exception or a NaN
C8_UnionOfKeysZeroSafe ==
    sim_call.called =>
        LET a1 == Aligned(sim_call.features1)
            a2 == Aligned(sim_call.features2)
            r == sim_call.result
        IN  /\ ~IsError(r)
            /\ ~IsNaN(r)
            /\ IF AnyNonZero(a1) /\ AnyNonZero(a2)
               THEN r = Sim(Dot(a1, a2), Dot(a1, a1) * Dot(a2, a2))
               ELSE r = Zero

C8_Witness ==
    /\ sim_call.called
    /\ DOMAIN sim_call.features1 # DOMAIN sim_call.features2
    /\ DOMAIN sim_call.features2 # {}
    /\ AnyNonZero(Aligned(sim_call.features1))
    /\ ~AnyNonZero(Aligned(sim_call.features2))
    /\ sim_call.result = Zero

-----------------------------------------------------------------------------
(* Claims on compare_rdms and on the matrices of a small session *)

\* the entries above the diagonal; a one-dimensional array has none
Above(rdm) == IF Len(rdm.shape) < 2 THEN <<>> ELSE UpperTriangle(rdm)

AllIdentical(values) ==
    \A i, j \in DOMAIN values :
        \/ DistEq(values[i], values[j])
        \/ IsNaN(values[i]) /\ IsNaN(values[j])

\* C9: compare_rdms never raises; it returns 0.0 when the shapes differ, when
\* the upper triangle is empty or when either upper triangle is constant, and
\* the rank correlation (0.0 if that is undefined) otherwise
C9_ZeroOrRankCorrelation ==
    cmp_call.called =>
        LET v1 == Above(cmp_call.rdm1)
            v2 == Above(cmp_call.rdm2)
            r == cmp_call.result
        IN  /\ ~IsError(r)
            /\ IF \/ cmp_call.rdm1.shape # cmp_call.rdm2.shape
                  \/ v1 = <<>>
                  \/ AllIdentical(v1) \/ AllIdentical(v2)
               THEN r = Zero
               ELSE r = (IF IsNaN(spearmanr(v1, v2)) THEN Zero ELSE spearmanr(v1, v2))

\* what compare_rdms does on matrices of two dimensions
C9_TwoDimensional ==
    (cmp_call.called /\ Len(cmp_call.rdm1.shape) = 2 /\ Len(cmp_call.rdm2.shape) = 2)
        => C9_ZeroOrRankCorrelation

EmptySummary == [shape |-> <<0>>, mean |-> Rat(0, 1), std |-> Rat(0, 1)]

\* C10: with fewer than 2 responses the three matrices are empty, no
\* comparison is computed, and every serialized summary has mean 0 and std 0
C10_FewerThanTwoResponses ==
    TotalResponses < 2 =>
        /\ create_feature_rdm(keys, responses) = EmptyRdm
        /\ create_semantic_rdm(keys, responses) = EmptyRdm
        /\ create_pattern_rdm(keys, responses) = EmptyRdm
        /\ DOMAIN analyze_patterns(keys, responses).comparisons = {}
        /\ Analysed =>
              /\ Ok
              /\ DOMAIN results.rsa_patterns.rdms = {"features", "semantic", "pattern"}
              /\ \A key \in DOMAIN results.rsa_patterns.rdms :
                    results.rsa_patterns.rdms[key] = EmptySummary
              /\ "feature_semantic" \notin DOMAIN results.rsa_patterns.comparisons

C10_Witness ==
    /\ Ok
    /\ TotalResponses = 1
    /\ results.rsa_patterns.rdms["pattern"] = EmptySummary

-----------------------------------------------------------------------------
(* Claims on calculate_trend *)

\* all values are equal (a NaN is equal to nothing)
AllEqual(values) ==
    \A i, j \in DOMAIN values : values[i] = values[j] /\ values[i] # NotANumber

\* C11: a trajectory of length >= 2 whose values are all equal is 'stable',
\* by the exact-equality branch, without a correlation being computed
C11_ConstantIsStable ==
    (trend_call.called /\ Len(trend_call.values) >= 2 /\ AllEqual(trend_call.values)) =>
        /\ trend_call.result = "stable"
        /\ trend_call.branch = "constant"

C11_Witness ==
    /\ trend_call.called
    /\ trend_call.values = <<2, 2, 2, 2>>
    /\ trend_call.result = "stable"
    /\ trend_call.branch = "constant"

\* the Pearson correlation of values and positions from the raw sums:
\* r = sxy / sqrt(sxx * syy) with sxy = n * sum(i * y) - sum(i) * sum(y)
RawSums(values) ==
    LET n == Len(values)
        sumi == SumSeq([i \in 1..n |-> i - 1])
        sumy == SumSeq(values)
    IN  [sxy |-> n * SumSeq([i \in 1..n |-> (i - 1) * values[i]]) - sumi * sumy,
         sxx |-> n * SumSeq([i \in 1..n |-> (i - 1) * (i - 1)]) - sumi * sumi,
         syy |-> BigSub(BigMul(Big(n), BigSum([i \in 1..n |->
                                   BigMul(Big(values[i]), Big(values[i]))])),
                        BigMul(Big(sumy), Big(sumy)))]

HasNaN(values) == \E i \in DOMAIN values : values[i] = NotANumber

\* r > 0.3, r < -0.3
Strong(values) ==
    LET c == RawSums(values)
    IN  BigLess(BigMul(Big(9), BigMul(Big(c.sxx), c.syy)),
                BigMul(Big(100), BigMul(Big(Abs(c.sxy)), Big(Abs(c.sxy)))))

AboveThreshold(values) == ~HasNaN(values) /\ RawSums(values).sxy > 0 /\ Strong(values)
BelowThreshold(values) == ~HasNaN(values) /\ RawSums(values).sxy < 0 /\ Strong(values)

StrictlyIncreasing(values) ==
    ~HasNaN(values) /\ \A i \in 1..(Len(values) - 1) : values[i] < values[i + 1]

StrictlyDecreasing(values) ==
    ~HasNaN(values) /\ \A i \in 1..(Len(values) - 1) : values[i] > values[i + 1]

\* the trend is decided by the thresholds on r
ByThresholds ==
    LET v == trend_call.values
    IN  /\ trend_call.result = "increasing" <=> AboveThreshold(v)
        /\ trend_call.result = "decreasing" <=> BelowThreshold(v)
        /\ trend_call.result = "stable" <=> (~AboveThreshold(v) /\ ~BelowThreshold(v))

NotConstant == trend_call.called /\ trend_call.branch = "correlation"

\* C12 as stated: with two distinct values the trend is decided by the
\* thresholds on r, and so every strictly increasing trajectory is
\* 'increasing' and its reverse 'decreasing'
C12_MonotoneIsTrend ==
    NotConstant =>
        /\ ByThresholds
        /\ StrictlyIncreasing(trend_call.values) => trend_call.result = "increasing"
        /\ StrictlyDecreasing(trend_call.values) => trend_call.result = "decreasing"

\* C12, amended: the trend is decided by the thresholds on r (an undefined
\* correlation is 'stable'); a strictly increasing trajectory is never
\* 'decreasing', its reverse never 'increasing', and they are 'increasing'
\* and 'decreasing' when 3 / (n + 1) > 0.09, that is up to length 32
C12_ByThresholds ==
    NotConstant =>
        LET v == trend_call.values
            short == 300 > 9 * (Len(v) + 1)
        IN  /\ ByThresholds
            /\ StrictlyIncreasing(v) =>
                  /\ trend_call.result # "decreasing"
                  /\ short => trend_call.result = "increasing"
            /\ StrictlyDecreasing(v) =>
                  /\ trend_call.result # "increasing"
                  /\ short => trend_call.result = "decreasing"

\* r is exactly 0.3: 'stable'
C12_Witness ==
    /\ trend_call.called
    /\ trend_call.values = <<0, 2, 4, 3, 1>>
    /\ trend_call.branch = "correlation"
    /\ trend_call.result = "stable"

-----------------------------------------------------------------------------
(* Claims on calculate_coherence *)

\* the cosine similarity of two feature dicts aligned by name, 0.0 when
\* either is all zero
ExpectedSimilarity(features1, features2) ==
    LET a1 == Aligned(features1)
        a2 == Aligned(features2)
    IN  IF AnyNonZero(a1) /\ AnyNonZero(a2)
        THEN Sim(Dot(a1, a2), Dot(a1, a1) * Dot(a2, a2))
        ELSE Zero

\* the mean similarity over the unordered pairs of one task type's responses
ExpectedConsistency(t) ==
    LET rs == OfType(t)
        ps == UpperPairs(Len(rs), 1, 2)
    IN  Mean([i \in DOMAIN ps |->
                ExpectedSimilarity(rs[ps[i][1]].features, rs[ps[i][2]].features)])

\* the mean, over all responses, of the mean of the response's own group
ExpectedAlignment ==
    IF Canonical = <<>> THEN Zero
    ELSE Mean([i \in DOMAIN Canonical |->
                 LET fs == FactorFeatures(Canonical[i].task_type)
                 IN  Rat(SumSeq([j \in DOMAIN fs |-> Get(Canonical[i].features, fs[j])]),
                         Len(fs))])

ExpectedFactors ==
    LET types == SelectSeq(<<"concrete", "internal", "external">>,
                           LAMBDA t : Len(OfType(t)) >= 2)
    IN  [i \in DOMAIN types |-> ExpectedConsistency(types[i])] \o <<ExpectedAlignment>>

\* a number, or a mean of numbers or of means, whose value is 0.0
ZeroLeaf(x) == x.k \in {"rat", "sim"} /\ x.num = 0
ZeroValue(x) ==
    \/ ZeroLeaf(x)
    \/ /\ x.k = "mean"
       /\ \A i \in DOMAIN x.of :
             \/ ZeroLeaf(x.of[i])
             \/ x.of[i].k = "mean" /\ \A j \in DOMAIN x.of[i].of : ZeroLeaf(x.of[i].of[j])

\* C13: the coherence is the unweighted mean of one consistency factor per
\* task type with at least 2 responses and of one alignment factor; a task
\* type with 0 or 1 responses gives no factor; no responses give 0.0
C13_MeanOfComputableFactors ==
    /\ calculate_coherence(responses) = Mean(ExpectedFactors)
    /\ Canonical = <<>> => ZeroValue(calculate_coherence(responses))
    /\ Ok => results.coherence_score = Mean(ExpectedFactors)

C13_Witness ==
    /\ Ok
    /\ \E t, u \in TaskTypes : Len(OfType(t)) = 2 /\ Len(OfType(u)) = 1
    /\ Len(results.coherence_score.of) = 2
    /\ ~ZeroValue(results.coherence_score)

-----------------------------------------------------------------------------
(* Claims on repeated calls and on the inputs *)

\* C14: a second analyze_session on the same session object returns what the
\* first returned (or fails as the first failed)
C14_SecondCallEqual ==
    again.status # "none" => again = results

C14_Witness ==
    /\ again.status = "ok"
    /\ Len(again.dimensional_shifts) = 1
    /\ again.dimensional_shifts[1].transition = Arrow("concrete", "external")
    /\ again = results

\* C15: analyze_session leaves the session as it was: no key is added to,
\* removed from or rewritten in a response
C15_InputsUnchanged ==
    [][AnalyzeSession => responses' = responses]_vars

-----------------------------------------------------------------------------
(* Claims on the cross-session analysis *)

CrossDone == cross.status = "ok"

\* the transition-frequency map of session i of the batch
Frequencies(i) == all_results[i].analysis.pattern_evolution.transition_frequencies

\* the transitions seen in the batch, and the frequency of one, summed
Seen == UNION {DOMAIN Frequencies(i) : i \in DOMAIN all_results}
Summed(t) ==
    SumSeq([i \in DOMAIN all_results |->
               IF t \in DOMAIN Frequencies(i) THEN Frequencies(i)[t] ELSE 0])

\* C16: the transition returned has the largest summed frequency of all the
\* transitions seen, and "No clear pattern" is returned exactly when no
\* session of the batch has a transition
C16_MostFrequentTransition ==
    CrossDone =>
        IF Seen = {} THEN cross.pattern_evolution = NoClearPattern
        ELSE /\ cross.pattern_evolution \in Seen
             /\ \A u \in Seen : Summed(u) <= Summed(cross.pattern_evolution)

C16_Witness ==
    /\ CrossDone
    /\ Len(all_results) = 2
    /\ cross.pattern_evolution = Arrow("CCDS", "AAFS")
    /\ Len(all_results[1].analysis.pattern_evolution.transitions) = 2
    /\ all_results[1].analysis.pattern_evolution.transitions[1] = Arrow("AAFS", "CCDS")
    /\ Summed(Arrow("CCDS", "AAFS")) = 2

StatsDone == stats.status = "ok"

\* the sessions of one model in the batch
SessionsOf(model) == {i \in DOMAIN all_results : all_results[i].model = model}

\* ci_lower <= mean <= ci_upper
Encloses(ci) ==
    /\ ci.ci_lower.k = "mean - t * se"
    /\ ci.ci_upper.k = "mean + t * se"
    /\ ci.ci_lower.of = ci.mean.of
    /\ ci.ci_upper.of = ci.mean.of

\* C17: every session gives one coherence score to its own model's list; a
\* confidence interval is reported for a model iff it has 2 samples or more,
\* with n the number of samples and ci_lower <= mean <= ci_upper
C17_PerModelIntervals ==
    StatsDone =>
        /\ DOMAIN stats.by_model = {all_results[i].model : i \in DOMAIN all_results}
        /\ \A model \in DOMAIN stats.by_model :
              /\ Len(stats.by_model[model].coherence_scores) = Cardinality(SessionsOf(model))
              /\ \A j \in DOMAIN stats.by_model[model].coherence_scores :
                    \E i \in SessionsOf(model) :
                        stats.by_model[model].coherence_scores[j]
                            = all_results[i].analysis.coherence_score
              /\ model \in DOMAIN stats.confidence_intervals
                    <=> Cardinality(SessionsOf(model)) >= 2
        /\ \A model \in DOMAIN stats.confidence_intervals :
              /\ stats.confidence_intervals[model].n = Cardinality(SessionsOf(model))
              /\ Encloses(stats.confidence_intervals[model])

\* the sum of a factor's features over every response of the batch
FactorTotal(factor) ==
    SumSeq([i \in DOMAIN all_results |->
               LET rs == Flatten(all_results[i].data.responses, TaskOrder)
               IN  SumSeq([j \in DOMAIN rs |-> FactorSum(rs[j].features, factor)])])

\* C18: the mode returned has the highest mean over the individual responses
\* of the batch, every response weighing the same
C18_HighestMeanOverResponses ==
    CrossDone =>
        /\ cross.dominant_mode \in TaskTypes
        /\ \A factor \in TaskTypes :
              FactorTotal(factor) * Len(FactorFeatures(cross.dominant_mode))
                  <= FactorTotal(cross.dominant_mode) * Len(FactorFeatures(factor))

\* a long session and a short one, where the mean of the sessions' means
\* would name another mode
C18_Witness ==
    /\ CrossDone
    /\ Len(all_results) = 2
    /\ Len(Flatten(all_results[1].data.responses, TaskOrder)) = 3
    /\ Len(Flatten(all_results[2].data.responses, TaskOrder)) = 1
    /\ cross.dominant_mode = "internal"
    /\ identify_dominant_processing_mode_sessions(all_results) = "concrete"

-----------------------------------------------------------------------------
(* Claims on calculate_internal_external_balance *)

LoadedShifts == Concat([i \in DOMAIN all_results |-> all_results[i].analysis.dimensional_shifts])

\* |delta| > 0.1
Counted(delta) == 10 * Abs(delta.num) > delta.den

\* the sum, in twentieths, and the number of the deltas beyond the threshold
SumCounted(deltas) ==
    SumSeq([i \in DOMAIN deltas |-> IF Counted(deltas[i]) THEN Abs(deltas[i].num) ELSE 0])
NumCounted(deltas) ==
    LET n == Cardinality({i \in DOMAIN deltas : Counted(deltas[i])})
    IN  IF n = 0 THEN 1 ELSE n

\* C19: each average is taken over the shifts beyond the threshold only (0
\* if there is none); 'Internal-dominant' iff the internal average exceeds
\* 1.5 times the external one, else 'External-dominant' iff the reverse, else
\* 'Balanced'
C19_BalanceOfAverages ==
    balance_call.called =>
        LET internal == [i \in DOMAIN LoadedShifts |-> LoadedShifts[i].internal_delta]
            external == [i \in DOMAIN LoadedShifts |-> LoadedShifts[i].external_delta]
            si == SumCounted(internal) * NumCounted(external)
            se == SumCounted(external) * NumCounted(internal)
        IN  /\ balance_call.result = "Internal-dominant" <=> 2 * si > 3 * se
            /\ balance_call.result = "External-dominant" <=>
                   (~(2 * si > 3 * se) /\ 2 * se > 3 * si)
            /\ balance_call.result = "Balanced" <=>
                   (~(2 * si > 3 * se) /\ ~(2 * se > 3 * si))
            /\ (SumCounted(internal) = 0 /\ SumCounted(external) = 0) =>
                   balance_call.result = "Balanced"

\* a delta of 0.1 is left out of the internal average: 0.3 against 0.175
C19_Witness ==
    /\ balance_call.called
    /\ LoadedShifts = <<LoadedShift(6, 4), LoadedShift(2, -3)>>
    /\ balance_call.result = "Internal-dominant"

-----------------------------------------------------------------------------
(* Claims on the significance test *)

\* the models of the batch with 2 coherence samples or more
WithTwoSamples ==
    {model \in {all_results[i].model : i \in DOMAIN all_results} :
        Cardinality(SessionsOf(model)) >= 2}

\* C20: the ANOVA result is present when at least 2 models have 2 samples or
\* more each, and absent otherwise
C20_AnovaWhenTwoModels ==
    StatsDone =>
        /\ "anova" \in DOMAIN stats.statistical_tests
              <=> Cardinality(WithTwoSamples) >= 2
        /\ "anova" \in DOMAIN stats.statistical_tests =>
              DOMAIN stats.statistical_tests.anova
                  = {"f_statistic", "p_value", "significant"}

-----------------------------------------------------------------------------
(* Claims on run_automated_collection_week *)

\* every (model, session number) pair, in the order of the two loops
WeekRounds ==
    [i \in 1..(Len(WeekModels) * SessionsPerModel) |->
        <<WeekModels[((i - 1) \div SessionsPerModel) + 1], (i - 1) % SessionsPerModel>>]

AnalysisKeys ==
    {"dimensional_shifts", "rsa_patterns", "feature_trajectories", "pattern_evolution",
     "coherence_score"}

\* the entries of all_results that belong to a round
EntriesOf(round) ==
    {i \in DOMAIN all_results : <<all_results[i].model, all_results[i].session>> = round}

Running == week.pc # "none"

\* the lines printed for the rounds that are over
Printed(round) == {week.printed[i].line : i \in {j \in DOMAIN week.printed :
                                                    week.printed[j].round = round}}

WeekSafe ==
    Running =>
        /\ week.pc # "raised"
        /\ \A i \in DOMAIN week.printed : week.printed[i].round = WeekRounds[i]
        /\ week.pc \in {"final", "done"} => Len(week.printed) = Len(WeekRounds)
        /\ \A i \in DOMAIN all_results :
              /\ all_results[i].analysis.status = "ok"
              /\ AnalysisKeys \subseteq DOMAIN all_results[i].analysis
        /\ \A i \in DOMAIN WeekRounds :
              /\ Cardinality(EntriesOf(WeekRounds[i])) <= 1
              /\ Printed(WeekRounds[i]) \cap {"Exception", "ValueError"} # {} =>
                    /\ EntriesOf(WeekRounds[i]) = {}
                    /\ WeekRounds[i] \notin week.checkpoints
        /\ week.pc = "done" =>
              /\ cross.status = "ok"
              /\ cross.total_sessions = Len(all_results)
              /\ cross.models_tested = {all_results[i].model : i \in DOMAIN all_results}

C30_AppendBeforeCheckpoint ==
    Running =>
        /\ week.pc = "checkpoint" => EntriesOf(Round(week)) # {}
        /\ \A c \in week.checkpoints : EntriesOf(c) # {}
        /\ \A i \in DOMAIN all_results :
              LET round == <<all_results[i].model, all_results[i].session>>
              IN  \/ round \in week.checkpoints /\ Printed(round) = {"Complete"}
                  \/ round \notin week.checkpoints /\ Printed(round) = {"OSError"}
                  \/ round = Round(week) /\ week.pc = "checkpoint" /\ Printed(round) = {}
        /\ week.pc = "done" => cross.total_sessions = Len(all_results)
        /\ \A round \in week.waits :
              /\ round \in week.checkpoints
              /\ Printed(round) = {"Complete"}
              /\ round[2] < SessionsPerModel - 1

\* a failed checkpoint write: the session was reported as an error, has no
\* checkpoint, and is in the batch that was cross-analysed; and a wait made
C30_Witness ==
    /\ week.pc = "done"
    /\ \E i \in DOMAIN all_results :
          LET round == <<all_results[i].model, all_results[i].session>>
          IN  round \notin week.checkpoints /\ Printed(round) = {"OSError"}
    /\ cross.total_sessions = Len(all_results)
    /\ week.waits # {}
    /\ week.checkpoints \ week.waits # {}

-----------------------------------------------------------------------------
(* Claims on calculate_factor_shift *)

\* the sum of the values a feature dict has for the features of a group
GroupTotal(features, group) ==
    LET has == {f \in DOMAIN features : f \in Range(group)}
        RECURSIVE Total(_)
        Total(fs) == IF fs = {} THEN 0
                     ELSE LET f == CHOOSE g \in fs : TRUE
                          IN  features[f] + Total(fs \ {f})
    IN  Total(has)

\* delta = after / size - before / size, for a group of the given size
MeanDifference(delta, before, after, group, size) ==
    /\ Len(group) = size
    /\ delta.num * size = (GroupTotal(after, group) - GroupTotal(before, group)) * delta.den
    /\ GroupTotal(after, group) = GroupTotal(before, group) => delta.num = 0

\* x = -y
Negated(x, y) == x.num * y.den = (0 - y.num) * x.den

ShiftsNow == calculate_dimensional_shifts(responses)

\* C22: each delta is the mean of the group in the after response minus the
\* mean in the before response, over the 6 internal, 3 external and 5
\* concrete features with a missing feature as 0; equal means give 0, and
\* swapping before and after negates the delta
C22_DeltaOfGroupMeans ==
    \A i \in DOMAIN ShiftsNow :
        LET before == Canonical[i].features
            after == Canonical[i + 1].features
            sh == ShiftsNow[i]
        IN  /\ MeanDifference(sh.internal_delta, before, after, internal_features, 6)
            /\ MeanDifference(sh.external_delta, before, after, external_features, 3)
            /\ MeanDifference(sh.concrete_delta, before, after, concrete_features, 5)
            /\ \A factor \in TaskTypes :
                  Negated(calculate_factor_shift(after, before, factor),
                          calculate_factor_shift(before, after, factor))
            /\ Ok => results.dimensional_shifts[i] = sh

\* a shift from a response without the feature visual to one that has it,
\* followed by one between two responses of equal means
C22_Witness ==
    /\ Ok
    /\ Len(results.dimensional_shifts) = 2
    /\ "visual" \notin DOMAIN Canonical[1].features
    /\ "visual" \in DOMAIN Canonical[2].features
    /\ results.dimensional_shifts[1].concrete_delta = Rat(1, 5)
    /\ results.dimensional_shifts[1].internal_delta = Rat(-1, 6)
    /\ results.dimensional_shifts[2].concrete_delta.num = 0

-----------------------------------------------------------------------------
(* Claims on track_feature_changes *)

FourteenNames ==
    {"social", "emotion", "polarity", "morality", "thought", "self_motion",
     "space", "time", "number",
     "visual", "color", "auditory", "smell_taste", "tactile"}

\* what track_feature_changes returns for the session as it is
TrackedNow == track_feature_changes(TagTaskTypes(responses))

StabilityAsClaimed(tracked) ==
    /\ DOMAIN tracked.trajectories = FourteenNames
    /\ Cardinality(DOMAIN tracked.trajectories) = 14
    /\ DOMAIN tracked.stability =
          {f \in FourteenNames : Len(tracked.trajectories[f]) >= 2}
    /\ \A f \in DOMAIN tracked.stability :
          /\ tracked.stability[f].trend \in {"increasing", "decreasing", "stable"}
          /\ tracked.stability[f].trend # "unknown"

\* C23: 'stability' has an entry for a feature exactly when its trajectory
\* has 2 or more points, 'trajectories' has the 14 canonical names as its
\* keys whatever their lengths, and no stability entry has the trend
\* 'unknown'
C23_StabilityFromTwoPoints ==
    /\ ~IsError(TrackedNow) /\ StabilityAsClaimed(TrackedNow)
    /\ Ok => results.feature_trajectories = TrackedNow

\* a session with a trajectory of two points, one of a single point and
\* empty ones
C23_Witness ==
    /\ Ok
    /\ Len(results.feature_trajectories.trajectories["visual"]) = 2
    /\ Len(results.feature_trajectories.trajectories["social"]) = 1
    /\ Len(results.feature_trajectories.trajectories["emotion"]) = 0
    /\ DOMAIN results.feature_trajectories.stability = {"visual"}

-----------------------------------------------------------------------------
(* Claims on the matrices of the RSAEngine *)

PatternRdmNow == create_pattern_rdm(keys, responses)

\* the value of a matrix entry, for the entries 0.0 and 1.0
IsZeroDistance(x) == x.k = "dist" /\ x.num > 0 /\ x.num * x.num = x.den2
IsOneDistance(x) == x.k = "dist" /\ x.num = 0

\* C24: a non-empty pattern matrix is n x n for the n responses, symmetric,
\* zero on the diagonal, and its entry (i, j) is 0 when responses i and j
\* have the same pattern label and 1 otherwise
C24_PatternMatrix ==
    LET n == Len(Inserted)
        rdm == PatternRdmNow
    IN  /\ n < 2 => rdm.shape = <<0>>
        /\ n >= 2 =>
              /\ rdm.shape = <<n, n>>
              /\ DOMAIN rdm.at = (1..n) \X (1..n)
              /\ \A i, j \in 1..n :
                    /\ rdm.at[<<i, j>>] = rdm.at[<<j, i>>]
                    /\ i = j => IsZeroDistance(rdm.at[<<i, j>>])
                    /\ Inserted[i].pattern = Inserted[j].pattern =>
                          IsZeroDistance(rdm.at[<<i, j>>])
                    /\ Inserted[i].pattern # Inserted[j].pattern =>
                          IsOneDistance(rdm.at[<<i, j>>])
              /\ (\A i, j \in 1..n : Inserted[i].pattern = Inserted[j].pattern) =>
                    \A p \in DOMAIN rdm.at : IsZeroDistance(rdm.at[p])
              /\ Ok => results.rsa_patterns.rdms.pattern.shape = <<n, n>>

\* three responses, the first and the third with the same label
C24_Witness ==
    /\ Ok
    /\ Len(Inserted) = 3
    /\ Inserted[1].pattern = Inserted[3].pattern
    /\ Inserted[1].pattern # Inserted[2].pattern
    /\ IsZeroDistance(PatternRdmNow.at[<<3, 1>>])
    /\ IsOneDistance(PatternRdmNow.at[<<2, 1>>])

FeatureRdmNow == create_feature_rdm(keys, responses)
SemanticRdmNow == create_semantic_rdm(keys, responses)

\* the distance the matrix of a kind has between two responses
DistanceOf(kind, a, b) ==
    IF kind = "features" THEN cosine(FeatureVec(a.features), FeatureVec(b.features))
    ELSE IF kind = "semantic" THEN SemanticDistance(a.response, b.response)
    ELSE IF a.pattern = b.pattern THEN DistZero ELSE DistOne

\* the matrix is over the session's responses in the iteration order of the
\* 'responses' map: its entry (i, j) is the distance of responses i and j
RowsAreInserted(rdm, kind) ==
    /\ rdm.shape = <<Len(Inserted), Len(Inserted)>>
    /\ \A i, j \in DOMAIN Inserted :
          i # j => rdm.at[<<i, j>>] = DistanceOf(kind, Inserted[i], Inserted[j])

\* C25: the three matrices of analyze_patterns are over the responses in the
\* same order, that of the 'responses' map, and have the same shape, so the
\* feature_semantic comparison is never made on matrices of different shapes
C25_SameOrderSameShape ==
    /\ SemanticRdmNow.shape = PatternRdmNow.shape
    /\ ~IsError(FeatureRdmNow) =>
          /\ FeatureRdmNow.shape = SemanticRdmNow.shape
          /\ Len(Inserted) < 2 => FeatureRdmNow = EmptyRdm /\ SemanticRdmNow = EmptyRdm
          /\ Len(Inserted) >= 2 =>
                /\ RowsAreInserted(FeatureRdmNow, "features")
                /\ RowsAreInserted(SemanticRdmNow, "semantic")
                /\ RowsAreInserted(PatternRdmNow, "pattern")
          /\ RdmLen(FeatureRdmNow) > 1 /\ RdmLen(SemanticRdmNow) > 1 =>
                FeatureRdmNow.shape = SemanticRdmNow.shape
    /\ Ok =>
          /\ results.rsa_patterns.rdms.features.shape = results.rsa_patterns.rdms.semantic.shape
          /\ results.rsa_patterns.rdms.semantic.shape = results.rsa_patterns.rdms.pattern.shape
          /\ results.rsa_patterns.rdms.semantic = Summary(SemanticRdmNow)

\* three responses collected in an order that is not the canonical one, and
\* the comparison made
C25_Witness ==
    /\ Ok
    /\ keys = <<"internal", "concrete">>
    /\ Len(Inserted) = 3
    /\ Inserted[1].response # Inserted[3].response
    /\ Inserted[1].response = Inserted[2].response
    /\ "feature_semantic" \in DOMAIN results.rsa_patterns.comparisons
    /\ results.rsa_patterns.rdms.features.shape = <<3, 3>>

-----------------------------------------------------------------------------
(* Claims on the shifts and the pattern signatures of one session *)

\* the sum of the values of a dict of counts
RECURSIVE SumOfCounts(_)
SumOfCounts(counts) ==
    IF DOMAIN counts = {} THEN 0
    ELSE LET t == CHOOSE u \in DOMAIN counts : TRUE
         IN  counts[t] + SumOfCounts([u \in DOMAIN counts \ {t} |-> counts[u]])

DistinctLabels == {Canonical[i].pattern : i \in DOMAIN Canonical}

\* C26: the shifts and the transitions of a session have the same length
\* max(0, N-1), shift i has transition i as its pattern_change, the
\* transition frequencies sum to the number of transitions, and
\* pattern_diversity is the number of distinct labels (0 and the dominant
\* pattern 'None' for no response)
C26_ShiftsAgreeWithSignatures ==
    Ok =>
        LET shifts == results.dimensional_shifts
            evolution == results.pattern_evolution
            N == Len(Canonical)
        IN  /\ Len(shifts) = (IF N = 0 THEN 0 ELSE N - 1)
            /\ Len(evolution.transitions) = Len(shifts)
            /\ \A i \in DOMAIN shifts : shifts[i].pattern_change = evolution.transitions[i]
            /\ SumOfCounts(evolution.transition_frequencies) = Len(evolution.transitions)
            /\ evolution.pattern_diversity = Cardinality(DistinctLabels)
            /\ N >= 1 /\ (\A i, j \in 1..N : Canonical[i].pattern = Canonical[j].pattern) =>
                  evolution.pattern_diversity = 1
            /\ N = 0 => evolution.pattern_diversity = 0 /\ evolution.dominant_pattern = "None"

\* four responses collected external first, with a repeated transition
C26_Witness ==
    /\ Ok
    /\ keys = <<"external", "concrete">>
    /\ Len(Canonical) = 4
    /\ Canonical[1].pattern # Inserted[1].pattern
    /\ results.pattern_evolution.pattern_diversity = 2
    /\ Cardinality(DOMAIN results.pattern_evolution.transition_frequencies) = 2

ForwardLabels ==
    { Arrow("concrete", "concrete"), Arrow("concrete", "internal"),
      Arrow("concrete", "external"), Arrow("internal", "internal"),
      Arrow("internal", "external"), Arrow("external", "external") }

BackwardLabels ==
    { Arrow("internal", "concrete"), Arrow("external", "internal"),
      Arrow("external", "concrete") }

\* C27: the transition label of every shift stays in place or goes forward
\* in the order concrete, internal, external, whatever the order of
\* collection, and at most 2 shifts of a session change the task type
C27_TransitionsGoForward ==
    /\ \A i \in DOMAIN ShiftsNow :
          /\ ShiftsNow[i].transition \in ForwardLabels
          /\ ShiftsNow[i].transition \notin BackwardLabels
    /\ Cardinality({i \in DOMAIN ShiftsNow :
                       ShiftsNow[i].transition[1] # ShiftsNow[i].transition[3]}) <= 2
    /\ Ok => \A i \in DOMAIN ShiftsNow :
                results.dimensional_shifts[i].transition = ShiftsNow[i].transition

\* the three task types collected in the reverse of the canonical order
C27_Witness ==
    /\ Ok
    /\ keys = <<"external", "internal", "concrete">>
    /\ \A i \in DOMAIN keys : Len(responses[keys[i]]) = 1
    /\ results.dimensional_shifts[1].transition = Arrow("concrete", "internal")
    /\ results.dimensional_shifts[2].transition = Arrow("internal", "external")

-----------------------------------------------------------------------------
(* Claims on feature names that are not canonical *)

HasExtra(r) == ~(DOMAIN r.features \subseteq FourteenNames)

\* the session without the feature names that are not canonical
Stripped(features) == [f \in DOMAIN features \cap FourteenNames |-> features[f]]

StrippedResponses ==
    [t \in DOMAIN responses |->
        [i \in DOMAIN responses[t] |->
            [responses[t][i] EXCEPT !.features = Stripped(@)]]]

\* C28: track_feature_changes raises KeyError exactly for a session with a
\* response that has a feature name outside the 14, and then analyze_session
\* raises and no analysis is produced; the shifts and the alignment ignore
\* the extra name, and the coherence and the similarities are computed with it
C28_OnlyCanonicalNames ==
    LET extra == \E i \in DOMAIN Canonical : HasExtra(Canonical[i])
    IN  /\ IsError(TrackedNow) <=> extra
        /\ extra => TrackedNow.error = "KeyError"
        /\ Analysed /\ extra =>
              /\ results.status = "raised"
              /\ DOMAIN results = {"status", "error"}
              /\ results.error = "KeyError" \/ IsError(analyze_patterns(keys, responses))
        /\ Analysed /\ ~extra /\ ~IsError(analyze_patterns(keys, responses)) => Ok
        /\ ShiftsNow = calculate_dimensional_shifts(StrippedResponses)
        /\ calculate_dimensional_alignment(TagTaskTypes(responses))
              = calculate_dimensional_alignment(TagTaskTypes(StrippedResponses))
        /\ ~IsError(calculate_coherence(TagTaskTypes(responses)))
        /\ \A i, j \in DOMAIN Canonical :
              ~IsError(calculate_feature_similarity(Canonical[i].features,
                                                    Canonical[j].features))

\* two responses with two features each, one of them not canonical: the
\* matrices are built, and track_feature_changes raises
C28_Witness ==
    /\ Analysed
    /\ Len(Canonical) = 2
    /\ HasExtra(Canonical[1]) /\ ~HasExtra(Canonical[2])
    /\ ~IsError(analyze_patterns(keys, responses))
    /\ results.status = "raised"
    /\ results.error = "KeyError"
    /\ Len(ShiftsNow) = 1
    /\ calculate_feature_similarity(Canonical[1].features, Canonical[2].features) = Sim(1, 4)

-----------------------------------------------------------------------------
(* Claims on identify_dominant_processing_mode *)

\* the mean of factor a is at least that of factor b
AtLeast(a, b) ==
    FactorTotal(a) * Len(FactorFeatures(b)) >= FactorTotal(b) * Len(FactorFeatures(a))

Highest(a) == \A b \in TaskTypes : AtLeast(a, b)

\* C29: among the groups with the highest overall mean the function returns
\* the earliest in the order internal, external, concrete; for a batch
\* without any response it returns 'internal'
C29_TiesInFixedOrder ==
    CrossDone =>
        /\ Highest("internal") => cross.dominant_mode = "internal"
        /\ ~Highest("internal") /\ Highest("external") => cross.dominant_mode = "external"
        /\ ~Highest("internal") /\ ~Highest("external") => cross.dominant_mode = "concrete"
        /\ BatchResponses(all_results) = <<>> => cross.dominant_mode = "internal"

\* external and concrete share the highest mean, 1/2, through two responses
C29_Witness ==
    /\ CrossDone
    /\ Len(all_results) = 2
    /\ FactorTotal("internal") = 0
    /\ FactorTotal("external") = 3
    /\ FactorTotal("concrete") = 5
    /\ FactorTotal("external") # FactorSum(BatchResponses(all_results)[1].features, "external")
    /\ cross.dominant_mode = "external"

=============================================================================
